---------------------------- MODULE Spec2Model ----------------------------
(***************************************************************************)
(* State-machine model of the jomini plain-text tape parser                *)
(* (src/src/text/tape.rs) and of the scalar decoder it calls               *)
(* (src/src/scalar.rs).                                                     *)
(*                                                                         *)
(* Bytes are integers 0..255.  Tape indices are 0-based as in the source;  *)
(* the TLA+ sequence position of tape index i is i + 1.                    *)
(***************************************************************************)
EXTENDS Integers, Sequences, FiniteSets, TLC

(***************************************************************************)
(* Byte literals used by the parser.                                       *)
(***************************************************************************)
LBRACE == 123
RBRACE == 125
EQUALS == 61
QUOTE == 34
HASH == 35
NEWLINE == 10
BACKSLASH == 92
CH_r == 114
CH_g == 103
CH_b == 98
CH_0 == 48
CH_9 == 57

(***************************************************************************)
(* Option<usize>: None is the empty sequence, Some(x) is <<x>>.            *)
(***************************************************************************)
None == << >>
Some(x) == << x >>

Min(S) == CHOOSE x \in S : \A y \in S : x <= y
Max(S) == CHOOSE x \in S : \A y \in S : x >= y
Max2(a, b) == IF a >= b THEN a ELSE b

\* d[k..] and d[..k] for k <= len
Drop(d, k) == SubSeq(d, k + 1, Len(d))
Take(d, k) == SubSeq(d, 1, k)

(***************************************************************************)
(* Character classes (crate::data, not part of the available sources).     *)
(***************************************************************************)
Whitespace == {9, 10, 11, 12, 13, 32}
is_whitespace(b) == b \in Whitespace
is_boundary(b) == is_whitespace(b) \/ b \in {LBRACE, RBRACE, EQUALS, HASH, QUOTE}

Byte == 0 .. 255
\* |x| !is_whitespace(x)
not_whitespace == {b \in Byte : ~is_whitespace(b)}
\* the bytes is_boundary confirms
boundary == {b \in Byte : is_boundary(b)}

(***************************************************************************)
(* forward_search: offset of the first byte that confirm holds of (confirm *)
(* is the set of these bytes), or None.                                    *)
(***************************************************************************)
forward_search(d, confirm) ==
    LET hits == {i \in 1..Len(d) : d[i] \in confirm}
    IN  IF hits = {} THEN None ELSE Some(Min(hits) - 1)

unwrap_or(o, dflt) == IF o = None THEN dflt ELSE o[1]

\* Iterator::position(|x| confirm(x)), confirm being the set of these bytes
position_in(d, confirm) ==
    LET hits == {i \in 1..Len(d) : d[i] \in confirm}
    IN  IF hits = {} THEN None ELSE Some(Min(hits) - 1)

\* Iterator::position(|x| x == byte)
position(d, byte) ==
    LET hits == {i \in 1..Len(d) : d[i] = byte}
    IN  IF hits = {} THEN None ELSE Some(Min(hits) - 1)

(***************************************************************************)
(* skip_ws_t: skip whitespace, then a `#` comment up to (not including)    *)
(* the next newline, repeatedly.                                           *)
(***************************************************************************)
\* skip_ws_t that stops in front of a comment
skip_ws(d) == Drop(d, unwrap_or(forward_search(d, not_whitespace), Len(d)))

RECURSIVE skip_ws_t(_)
skip_ws_t(d) ==
    LET nind == forward_search(d, not_whitespace)
        ind == unwrap_or(nind, Len(d))
        rest == Drop(d, ind)
    IN  IF rest # << >> /\ rest[1] = HASH
        THEN LET idx == position(rest, NEWLINE)
             IN  IF idx = None THEN << >> ELSE skip_ws_t(Drop(rest, idx[1]))
        ELSE rest

(***************************************************************************)
(* split_at_scalar: the bytes up to the first boundary byte, at least one. *)
(***************************************************************************)
\* split_at_scalar that ends a scalar at whitespace only
split_at_scalar_blank(d) ==
    LET nind == forward_search(d, Whitespace)
        ind == Max2(unwrap_or(nind, Len(d)), 1)
    IN  [scalar |-> Take(d, ind), rest |-> Drop(d, ind)]

\* split_at_scalar without the clamp to one byte
split_at_scalar_unclamped(d) ==
    LET nind == forward_search(d, boundary)
        ind == unwrap_or(nind, Len(d))
    IN  [scalar |-> Take(d, ind), rest |-> Drop(d, ind)]

split_at_scalar(d) ==
    LET nind == forward_search(d, boundary)
        ind == Max2(unwrap_or(nind, Len(d)), 1)
    IN  [scalar |-> Take(d, ind), rest |-> Drop(d, ind)]

(***************************************************************************)
(* contains_zero_byte(le_u64(n) ^ repeat_byte(c)): some byte of the chunk  *)
(* equals c (crate::util, not part of the available sources).              *)
(***************************************************************************)
chunk_has_byte(n, c) == \E i \in 1..Len(n) : n[i] = c

QuoteOk(scalar, rest) == [kind |-> "Ok", scalar |-> scalar, rest |-> rest]
QuoteEof == [kind |-> "Eof", scalar |-> << >>, rest |-> << >>]
QuotePanic == [kind |-> "Panic", scalar |-> << >>, rest |-> << >>]

(***************************************************************************)
(* parse_quote_scalar_fallback: bytewise scan from pos = 1; a backslash    *)
(* skips the byte after it.                                                *)
(***************************************************************************)
RECURSIVE fallback_loop(_, _)
fallback_loop(d, pos) ==
    IF pos < Len(d)
    THEN IF d[pos + 1] = BACKSLASH THEN fallback_loop(d, pos + 2)
         ELSE IF d[pos + 1] = QUOTE
              THEN QuoteOk(SubSeq(d, 2, pos), Drop(d, pos + 1))
              ELSE fallback_loop(d, pos + 1)
    ELSE QuoteEof

\* parse_quote_scalar_fallback that takes a backslash for an ordinary byte
parse_quote_scalar_first_quote(d) ==
    LET idx == position(Drop(d, 1), QUOTE)
    IN  IF idx = None THEN QuoteEof
        ELSE QuoteOk(SubSeq(d, 2, idx[1] + 1), Drop(d, idx[1] + 2))

parse_quote_scalar_fallback(d) == fallback_loop(d, 1)

\* &d[end_idx + 2..] with sd = &d[1..]: panics when end_idx + 2 > d.len()
quote_found(d, end_idx) ==
    IF end_idx + 2 > Len(d) THEN QuotePanic
    ELSE QuoteOk(SubSeq(d, 2, end_idx + 1), Drop(d, end_idx + 2))

\* the loop over chunk_iter.remainder()
RECURSIVE remainder_loop(_, _, _, _)
remainder_loop(d, remainder, pos, offset) ==
    IF pos < Len(remainder)
    THEN IF remainder[pos + 1] = BACKSLASH
         THEN remainder_loop(d, remainder, pos + 2, offset)
         ELSE IF remainder[pos + 1] = QUOTE
              THEN quote_found(d, pos + offset)
              ELSE remainder_loop(d, remainder, pos + 1, offset)
    ELSE QuoteEof

\* the loop over the chunks without the fallback: a backslash is an
\* ordinary byte and the scalar ends at the first quote
chunk_loop_first_quote(d, sd, offset) == parse_quote_scalar_first_quote(d)

\* the loop over sd.chunks_exact(8)
RECURSIVE chunk_loop(_, _, _)
chunk_loop(d, sd, offset) ==
    IF offset + 8 <= Len(sd)
    THEN LET n == SubSeq(sd, offset + 1, offset + 8)
         IN  IF chunk_has_byte(n, BACKSLASH) THEN parse_quote_scalar_fallback(d)
             ELSE IF chunk_has_byte(n, QUOTE)
                  THEN quote_found(d, unwrap_or(position(n, QUOTE), 0) + offset)
                  ELSE chunk_loop(d, sd, offset + 8)
    ELSE remainder_loop(d, Drop(sd, offset), 0, offset)

\* _parse_quote_scalar: d[0] is the opening quote
parse_quote_scalar_(d) == chunk_loop(d, Drop(d, 1), 0)

(***************************************************************************)
(* Unsigned integers of any size: decimal digits, least significant first, *)
(* without high zeros; zero is the empty sequence.                         *)
(***************************************************************************)
RECURSIVE NumNorm(_)
NumNorm(x) == IF x # << >> /\ x[Len(x)] = 0 THEN NumNorm(Take(x, Len(x) - 1)) ELSE x

RECURSIVE NumOf(_)
NumOf(n) == IF n = 0 THEN << >> ELSE << n % 10 >> \o NumOf(n \div 10)

Rev(s) == [i \in 1..Len(s) |-> s[Len(s) + 1 - i]]

RECURSIVE NumAddC(_, _, _)
NumAddC(x, y, c) ==
    IF x = << >> /\ y = << >> THEN (IF c = 0 THEN << >> ELSE << c >>)
    ELSE LET a == IF x = << >> THEN 0 ELSE x[1]
             b == IF y = << >> THEN 0 ELSE y[1]
             t == a + b + c
         IN  << t % 10 >> \o NumAddC(IF x = << >> THEN x ELSE Tail(x),
                                     IF y = << >> THEN y ELSE Tail(y), t \div 10)

NumAdd(x, y) == NumAddC(x, y, 0)
NumMulPow10(x, k) == IF x = << >> THEN x ELSE [i \in 1..k |-> 0] \o x


\* x <= y
RECURSIVE NumLeqFrom(_, _, _)
NumLeqFrom(x, y, i) ==
    IF i = 0 THEN TRUE
    ELSE IF x[i] # y[i] THEN x[i] < y[i]
    ELSE NumLeqFrom(x, y, i - 1)

NumLeq(x, y) ==
    IF Len(x) # Len(y) THEN Len(x) < Len(y) ELSE NumLeqFrom(x, y, Len(x))

\* u64::MAX = 18446744073709551615
U64_MAX == Rev(<<1,8,4,4,6,7,4,4,0,7,3,7,0,9,5,5,1,6,1,5>>)

\* `x as u32`: x mod 2^32, computed on 16-bit halves <<high, low>>
RECURSIVE Mod32Halves(_, _, _)
Mod32Halves(x, i, hl) ==
    IF i = 0 THEN hl
    ELSE LET low == hl[2] * 10 + x[i]
             high == hl[1] * 10 + (low \div 65536)
         IN  Mod32Halves(x, i - 1, << high % 65536, low % 65536 >>)

RECURSIVE HalvesToNum(_)
HalvesToNum(hl) ==
    IF hl[1] = 0 /\ hl[2] = 0 THEN << >>
    ELSE LET t == (hl[1] % 10) * 65536 + hl[2]
         IN  << t % 10 >> \o HalvesToNum(<< hl[1] \div 10, t \div 10 >>)

as_u32(x) == HalvesToNum(Mod32Halves(x, Len(x), << 0, 0 >>))

(***************************************************************************)
(* scalar.rs: to_u64                                                       *)
(***************************************************************************)
is_digit(b) == b >= CH_0 /\ b <= CH_9
is_digits(d) == \A i \in 1..Len(d) : is_digit(d[i])
\* the SWAR test of eight bytes accepts exactly eight ASCII digits
is_digits_wide(d) == Len(d) = 8 /\ is_digits(d)

\* ascii_u64_to_digits(le_u64(chunk)): the decimal value of eight ASCII digits
ascii_u64_to_digits(chunk) == NumNorm(Rev([i \in 1..Len(chunk) |-> chunk[i] - CH_0]))

NumOk(v) == [ok |-> TRUE, err |-> "", val |-> v]
NumErr(e) == [ok |-> FALSE, err |-> e, val |-> << >>]
\* checked_mul / checked_add: None when the result exceeds u64::MAX
checked(v) == IF NumLeq(v, U64_MAX) THEN NumOk(v) ELSE NumErr("Overflow")

\* Option::and_then: next is the closure applied to the value of r
and_then(r, next) == IF r.ok THEN next ELSE r

\* for chunk in d.chunks_exact(8)
RECURSIVE to_u64_chunks(_, _, _)
to_u64_chunks(d, k, result) ==
    IF ~result.ok \/ (k + 1) * 8 > Len(d) THEN result
    ELSE LET chunk == SubSeq(d, k * 8 + 1, k * 8 + 8)
             old == result.val
             step1 == checked(NumMulPow10(old, 8))
             step2 == and_then(step1,
                          checked(NumAdd(step1.val, ascii_u64_to_digits(chunk))))
             step3 == and_then(step2, checked(NumAdd(step2.val, old)))
         IN  to_u64_chunks(d, k + 1, step3)

\* for (i, &x) in remainder.iter().enumerate()
RECURSIVE to_u64_remainder(_, _, _)
to_u64_remainder(remainder, i, result) ==
    IF ~result.ok \/ i >= Len(remainder) THEN result
    ELSE LET digit == NumOf(remainder[i + 1] - CH_0)
             term == NumMulPow10(digit, Len(remainder) - 1 - i)
         IN  to_u64_remainder(remainder, i + 1, checked(NumAdd(result.val, term)))

to_u64(d) ==
    IF d = << >> THEN NumErr("AllDigits")
    ELSE LET nchunks == Len(d) \div 8
             remainder == Drop(d, nchunks * 8)
             all_digits == \A k \in 0..(nchunks - 1) :
                               is_digits_wide(SubSeq(d, k * 8 + 1, k * 8 + 8))
         IN  IF ~(all_digits /\ is_digits(remainder)) THEN NumErr("AllDigits")
             ELSE LET r1 == to_u64_chunks(d, 0, NumOk(<< >>))
                      r2 == IF r1.ok /\ r1.val # << >>
                            THEN checked(NumMulPow10(r1.val, Len(remainder)))
                            ELSE r1
                  IN  to_u64_remainder(remainder, 0, r2)


(***************************************************************************)
(* scalar.rs: to_i64 and to_f64.  An i64 is a sign and a magnitude; zero   *)
(* is not negative.                                                        *)
(***************************************************************************)
MINUS == 45
DOT == 46

I64(neg, mag) == [neg |-> neg /\ mag # << >>, mag |-> mag]

\* x - y for x >= y
RECURSIVE NumSubB(_, _, _)
NumSubB(x, y, b) ==
    IF x = << >> THEN << >>
    ELSE LET s == IF y = << >> THEN 0 ELSE y[1]
             t == x[1] - s - b
         IN  << (t + 10) % 10 >>
                 \o NumSubB(Tail(x), IF y = << >> THEN y ELSE Tail(y),
                            IF t < 0 THEN 1 ELSE 0)

NumSub(x, y) == NumNorm(NumSubB(x, y, 0))

\* i64::MAX = 9223372036854775807
I64_MAX == Rev(<<9,2,2,3,3,7,2,0,3,6,8,5,4,7,7,5,8,0,7>>)
\* the magnitude of i64::MIN, 2^63
I64_MIN_MAG == NumAdd(I64_MAX, NumOf(1))
\* 2^64
TWO_POW_64 == NumAdd(U64_MAX, NumOf(1))

\* `rest as i64`: the two's complement reading of a u64
as_i64(rest) ==
    IF NumLeq(rest, I64_MAX) THEN I64(FALSE, rest)
    ELSE I64(TRUE, NumSub(TWO_POW_64, rest))

\* a panic of the arithmetic overflow check
Panicked == [ok |-> FALSE, err |-> "panic", val |-> << >>]

\* `sign * x` on i64 with sign 1 or -1: -1 * i64::MIN overflows, which
\* panics in a build with overflow checks and wraps to i64::MIN without
mul_sign(sign, x, overflow_checks) ==
    IF sign = 1 THEN NumOk(x)
    ELSE IF x.neg /\ x.mag = I64_MIN_MAG
    THEN (IF overflow_checks THEN Panicked ELSE NumOk(x))
    ELSE NumOk(I64(~x.neg, x.mag))

to_i64(d, overflow_checks) ==
    LET is_negative == d # << >> /\ d[1] = MINUS
        isn == IF is_negative THEN 1 ELSE 0
        sign == -((isn * 2) - 1)
        rest == to_u64(Drop(d, isn))
    IN  IF ~rest.ok THEN rest
        ELSE mul_sign(sign, as_i64(rest.val), overflow_checks)

\* 10u32.checked_pow(n), kept as its exponent: None from 10^10 on
checked_pow10_u32(n) == IF n <= 9 THEN NumOk(n) ELSE NumErr("Overflow")

\* the f64 built by (sign as f64).mul_add(frac / digits, leadf), kept as its
\* exact parts: lead + sign * frac / 10^digits
F64(lead, sign, frac, digits) ==
    [lead |-> lead, sign |-> sign, frac |-> frac, digits |-> digits]

to_f64(d, overflow_checks) ==
    LET pos == position(d, DOT)
    IN  IF pos = None
        THEN LET x == to_i64(d, overflow_checks)
             IN  IF x.ok THEN NumOk(F64(x.val, 1, I64(FALSE, << >>), 0)) ELSE x
        ELSE LET idx == pos[1]
                 lead == to_i64(Take(d, idx), overflow_checks)
                 trail == Drop(d, idx + 1)
                 frac == to_i64(trail, overflow_checks)
                 digits == checked_pow10_u32(Len(trail))
             IN  IF ~lead.ok THEN lead
                 ELSE IF ~frac.ok THEN frac
                 ELSE IF ~digits.ok THEN digits
                 ELSE NumOk(F64(lead.val, IF lead.val.neg THEN -1 ELSE 1,
                                frac.val, digits.val))

(***************************************************************************)
(* scalar.rs: to_bool                                                      *)
(***************************************************************************)
\* the bytes b"yes" and b"no"
Yes == <<121, 101, 115>>
No == <<110, 111>>

\* to_bool that looks at the leading bytes only
to_bool_prefix(d) ==
    IF Len(d) >= 3 /\ Take(d, 3) = Yes THEN NumOk(TRUE)
    ELSE IF Len(d) >= 2 /\ Take(d, 2) = No THEN NumOk(FALSE)
    ELSE NumErr("InvalidBool")

to_bool(d) ==
    IF d = Yes THEN NumOk(TRUE)
    ELSE IF d = No THEN NumOk(FALSE)
    ELSE NumErr("InvalidBool")

(***************************************************************************)
(* scalar.rs: windows_1252_to_utf8.  A string is its sequence of Unicode   *)
(* code points; the Cow is borrowed or owned.                              *)
(***************************************************************************)
\* crate::data::WINDOWS_1252 (not part of the available sources): the
\* best-fit table, which differs from Latin-1 on 0x80 .. 0x9F
WINDOWS_1252_HIGH ==
    << 8364, 129, 8218, 402, 8222, 8230, 8224, 8225,
       710, 8240, 352, 8249, 338, 141, 381, 143,
       144, 8216, 8217, 8220, 8221, 8226, 8211, 8212,
       732, 8482, 353, 8250, 339, 157, 382, 376 >>

WINDOWS_1252(c) == IF c >= 128 /\ c <= 159 THEN WINDOWS_1252_HIGH[c - 127] ELSE c

byte_is_ascii(c) == c < 128

Borrowed(s) == [cow |-> "Borrowed", str |-> s]
Owned(s) == [cow |-> "Owned", str |-> s]

\* the trim of trailing whitespace at the top of windows_1252_to_utf8
trim_end(d) ==
    IF d # << >> /\ is_whitespace(d[Len(d)])
    THEN LET ind == unwrap_or(position_in(Rev(d), not_whitespace), Len(d))
         IN  Take(d, Len(d) - ind)
    ELSE d

\* rest.iter().filter(|x| x != b'\\') pushed through the table
RECURSIVE push_decoded(_)
push_decoded(rest) ==
    IF rest = << >> THEN << >>
    ELSE IF rest[1] = BACKSLASH THEN push_decoded(Tail(rest))
    ELSE << WINDOWS_1252(rest[1]) >> \o push_decoded(Tail(rest))

\* the owned result built from d split at offset
to_owned_from(d, offset) == Owned(Take(d, offset) \o push_decoded(Drop(d, offset)))

\* the bytewise loop over the remainder
RECURSIVE utf8_remainder(_, _)
utf8_remainder(d, offset) ==
    IF offset >= Len(d) THEN Borrowed(d)
    ELSE IF ~byte_is_ascii(d[offset + 1]) \/ d[offset + 1] = BACKSLASH
    THEN to_owned_from(d, offset)
    ELSE utf8_remainder(d, offset + 1)

\* the loop over the chunks of eight bytes
RECURSIVE utf8_chunks(_, _)
utf8_chunks(d, offset) ==
    IF offset + 8 > Len(d) THEN utf8_remainder(d, offset)
    ELSE LET n == SubSeq(d, offset + 1, offset + 8)
         IN  IF (\E i \in 1 .. 8 : ~byte_is_ascii(n[i])) \/ chunk_has_byte(n, BACKSLASH)
             THEN to_owned_from(d, offset)
             ELSE utf8_chunks(d, offset + 8)

\* windows_1252_to_utf8 that owns what it has trimmed
windows_1252_to_utf8_owning(d0) ==
    IF trim_end(d0) # d0 THEN Owned(utf8_chunks(trim_end(d0), 0).str)
    ELSE utf8_chunks(d0, 0)

windows_1252_to_utf8(d0) == utf8_chunks(trim_end(d0), 0)

(***************************************************************************)
(* TextToken                                                               *)
(***************************************************************************)
Array(x) == [tag |-> "Array", val |-> x]
Object(x) == [tag |-> "Object", val |-> x]
Scalar(bytes) == [tag |-> "Scalar", val |-> bytes]
End(x) == [tag |-> "End", val |-> x]
Rgb(r, g, b) == [tag |-> "Rgb", val |-> << r, g, b >>]

\* the bytes b"rgb"
RgbWord == << CH_r, CH_g, CH_b >>

ParseStates ==
    {"Key", "KeyValueSeparator", "ObjectValue", "ArrayValue", "ParseOpen",
     "FirstValue", "EmptyObject", "RgbOpen", "RgbR", "RgbG", "RgbB", "RgbClose"}

(***************************************************************************)
(* The parser: the locals of ParserState::parse and the tape it fills.     *)
(*   input       self.data, the whole slice (original_length is its length)*)
(*   data        the unread rest of the input                              *)
(*   result      Running while the loop runs, then Ok or the error kind    *)
(*   hidden_objs history: the tape indices at which a hidden Object was    *)
(*               inserted                                                  *)
(*   calls       history: the number of earlier parse_slice_into_tape      *)
(*               calls on this tape                                        *)
(*   first       history: input, result and tape of the first call, the    *)
(*               one on a fresh tape, once a later call has begun          *)
(*   steps       history: the number of iterations of the loop of this     *)
(*               call                                                      *)
(*   idle        history: the number of iterations in a row, up to now,    *)
(*               that left the length of data as it was                    *)
(* A scalar and its conversion:                                            *)
(*   flavor      the encoding of the parser, which makes its scalars       *)
(*   scalar      the bytes of a Scalar1252 (its field data)                *)
(*   converted   the conversion applied to it and what it returned         *)
(***************************************************************************)
VARIABLES input, data, state, token_tape, parent_ind, array_ind_of_hidden_obj,
          red, green, blue, result, hidden_objs, calls, first, steps, idle,
          flavor, scalar, converted

vars == << input, data, state, token_tape, parent_ind, array_ind_of_hidden_obj,
           red, green, blue, result, hidden_objs, calls, first, steps, idle,
           flavor, scalar, converted >>

original_length == Len(input)

(***************************************************************************)
(* encoding.rs: the two encodings.  Scalar1252::new and ScalarUtf8::new    *)
(* keep the slice they are given; a token Scalar(bytes) holds the bytes    *)
(* its scalar views, and the type of the scalar is that of the flavor.     *)
(***************************************************************************)
Flavors == {"Windows1252", "Utf8"}

Scalar1252_new(d) == d

\* ScalarUtf8::new that keeps the ASCII bytes only
ScalarUtf8_new_ascii(d) == SelectSeq(d, LAMBDA b : b < 128)

ScalarUtf8_new(d) == d

\* self.flavor.scalar(d)
flavor_scalar(d) ==
    IF flavor = "Utf8" THEN ScalarUtf8_new(d) ELSE Scalar1252_new(d)

\* ParserState::offset that returns the length still to be read
offset_remaining(d) == Len(d)

\* ParserState::offset
offset(d) == original_length - Len(d)

Running == [kind |-> "Running", offset |-> 0]
Ok == [kind |-> "Ok", offset |-> 0]
\* Error::eof()
ErrEof == [kind |-> "Eof", offset |-> 0]
ErrStackEmpty(off) == [kind |-> "StackEmpty", offset |-> off]
ErrInvalidEmptyObject(off) == [kind |-> "InvalidEmptyObject", offset |-> off]
ErrInvalidSyntax(off) == [kind |-> "InvalidSyntax", offset |-> off]
\* an index or slice out of bounds
Panic == [kind |-> "Panic", offset |-> 0]

\* Vec::get: None when out of range
NoToken == [tag |-> "None", val |-> 0]
Get(tape, i) == IF i < Len(tape) THEN tape[i + 1] ELSE NoToken
IsOpen(t) == t.tag \in {"Array", "Object"}

\* the locals at the top of a loop iteration, data already skipped to d
Cur(d) ==
    [data |-> d, state |-> state, tape |-> token_tape, parent_ind |-> parent_ind,
     hid |-> array_ind_of_hidden_obj, red |-> red, green |-> green, blue |-> blue,
     result |-> Running, hidden |-> hidden_objs]

Fail(d, err) == [Cur(d) EXCEPT !.result = err]

\* parse_scalar
parse_scalar(d, next) ==
    LET sp == split_at_scalar(d)
    IN  [Cur(d) EXCEPT !.tape = Append(token_tape, Scalar(flavor_scalar(sp.scalar))),
                       !.data = sp.rest, !.state = next]

\* parse_quote_scalar that reads the quote and what follows as bare scalars
parse_quote_scalar_bare(d, next) ==
    LET sp == split_at_scalar(d)
    IN  [Cur(d) EXCEPT !.tape = Append(token_tape, Scalar(flavor_scalar(sp.scalar))),
                       !.data = sp.rest, !.state = next]

\* parse_quote_scalar, with `?`
parse_quote_scalar(d, next) ==
    LET q == parse_quote_scalar_(d)
    IN  IF q.kind = "Eof" THEN Fail(d, ErrEof)
        ELSE IF q.kind = "Panic" THEN Fail(d, Panic)
        ELSE [Cur(d) EXCEPT !.tape = Append(token_tape, Scalar(flavor_scalar(q.scalar))),
                            !.data = q.rest, !.state = next]

\* parse_key_value_separator that skips every `=` at the front
parse_key_value_separator_all(d) ==
    Drop(d, unwrap_or(position_in(d, Byte \ {EQUALS}), Len(d)))

\* parse_key_value_separator that leaves the `=` in place
parse_key_value_separator_kept(d) == d

\* parse_key_value_separator
parse_key_value_separator(d) == IF d[1] = EQUALS THEN Tail(d) ELSE d

\* match self.token_tape.get(parent_ind) { Array(x) | Object(x) => x, _ => 0 }
grand_ind_of(tape, p) == IF IsOpen(Get(tape, p)) THEN Get(tape, p).val ELSE 0

\* match self.token_tape.get(ind) { Array => ArrayValue, _ => Key }
state_of(tape, ind) == IF Get(tape, ind).tag = "Array" THEN "ArrayValue" ELSE "Key"

\* the StackEmpty test
stack_empty(p, grand_ind) == p = 0 /\ grand_ind = 0


(***************************************************************************)
(* The arms of `match state`; d is the input after skip_ws_t, not empty.   *)
(***************************************************************************)
\* EmptyObjectStep that records the empty object on the tape
EmptyObjectStepToken(d) ==
    IF d[1] # RBRACE THEN Fail(d, ErrInvalidEmptyObject(offset(d)))
    ELSE [Cur(d) EXCEPT !.data = Tail(d), !.state = "Key",
                        !.tape = Append(token_tape, Object(Len(token_tape)))]

\* EmptyObjectStep that reports the offset behind the byte it rejects
EmptyObjectStepOffsetBehind(d) ==
    IF d[1] # RBRACE THEN Fail(d, ErrInvalidEmptyObject(offset(Tail(d))))
    ELSE [Cur(d) EXCEPT !.data = Tail(d), !.state = "Key"]

EmptyObjectStep(d) ==
    IF d[1] # RBRACE THEN Fail(d, ErrInvalidEmptyObject(offset(d)))
    ELSE [Cur(d) EXCEPT !.data = Tail(d), !.state = "Key"]

\* set_object_end with the write left out: the slot keeps the parent's index
set_object_end_skipped(tape, p, end_idx) == tape

\* if let Some(parent) = token_tape.get_mut(parent_ind) { *parent = Object(end_idx) }
set_object_end(tape, p, end_idx) ==
    IF p < Len(tape) THEN [tape EXCEPT ![p + 1] = Object(end_idx)] ELSE tape

\* the Key arm for `}` with the StackEmpty test left out and the parent
\* indexed directly
KeyCloseUnchecked(d) ==
    IF parent_ind >= Len(token_tape) THEN Fail(d, Panic)
    ELSE [Cur(d) EXCEPT
            !.tape = Append(set_object_end(token_tape, parent_ind, Len(token_tape)),
                            End(parent_ind)),
            !.parent_ind = grand_ind_of(token_tape, parent_ind),
            !.state = state_of(token_tape, grand_ind_of(token_tape, parent_ind)),
            !.data = Tail(d)]

\* Key, `}`: close the current container, and the array around a hidden object
KeyClose(d) ==
    LET grand_ind == grand_ind_of(token_tape, parent_ind)
        st == state_of(token_tape, grand_ind)
        end_idx == Len(token_tape)
        tape1 == set_object_end(token_tape, parent_ind, end_idx)
        tape2 == Append(tape1, End(parent_ind))
    IN  IF stack_empty(parent_ind, grand_ind) THEN Fail(d, ErrStackEmpty(offset(d)))
        ELSE IF array_ind_of_hidden_obj # None
        THEN LET array_ind == array_ind_of_hidden_obj[1]
                 end_idx2 == Len(tape2)
                 tape3 == Append(tape2, End(array_ind))
                 found == array_ind < Len(tape3)
                 grand2 == IF found /\ tape3[array_ind + 1].tag = "Array"
                           THEN tape3[array_ind + 1].val ELSE 0
                 tape4 == IF found
                          THEN [tape3 EXCEPT ![array_ind + 1] = Array(end_idx2)]
                          ELSE tape3
             IN  [Cur(d) EXCEPT !.tape = tape4, !.state = state_of(tape4, grand2),
                                !.parent_ind = grand2, !.hid = None,
                                !.data = Tail(d)]
        ELSE [Cur(d) EXCEPT !.tape = tape2, !.state = st,
                            !.parent_ind = grand_ind, !.data = Tail(d)]

KeyStep(d) ==
    IF d[1] = RBRACE THEN KeyClose(d)
    ELSE IF d[1] = LBRACE
    THEN [Cur(d) EXCEPT !.data = Tail(d), !.state = "EmptyObject"]
    ELSE IF d[1] = QUOTE THEN parse_quote_scalar(d, "KeyValueSeparator")
    ELSE parse_scalar(d, "KeyValueSeparator")

\* KeyValueSeparatorStep that waits in its state for the `=`
KeyValueSeparatorStepWaiting(d) ==
    [Cur(d) EXCEPT !.data = parse_key_value_separator(d),
                   !.state = IF d[1] = EQUALS THEN "ObjectValue"
                             ELSE "KeyValueSeparator"]

KeyValueSeparatorStep(d) ==
    [Cur(d) EXCEPT !.data = parse_key_value_separator(d), !.state = "ObjectValue"]

\* `{` in ObjectValue and ArrayValue: push the provisional Array(0)
OpenContainer(d) ==
    [Cur(d) EXCEPT !.tape = Append(token_tape, Array(0)), !.state = "ParseOpen",
                   !.data = Tail(d)]

\* data.get(1) == g && data.get(2) == b && data.get(3) is a boundary
rgb_detected(d) ==
    /\ Len(d) > 1 /\ d[2] = CH_g
    /\ Len(d) > 2 /\ d[3] = CH_b
    /\ Len(d) > 3 /\ is_boundary(d[4])

ObjectValueStep(d) ==
    IF d[1] = LBRACE THEN OpenContainer(d)
    ELSE IF d[1] = RBRACE THEN [Cur(d) EXCEPT !.state = "Key"]
    ELSE IF d[1] = QUOTE THEN parse_quote_scalar(d, "Key")
    ELSE IF d[1] = CH_r /\ rgb_detected(d)
    THEN [Cur(d) EXCEPT !.data = Drop(d, 3), !.state = "RgbOpen"]
    ELSE parse_scalar(d, "Key")

\* ParseOpen, `}`: the empty array
ParseOpenClose(d) ==
    IF Len(token_tape) < 1 THEN Fail(d, Panic)
    ELSE LET ind == Len(token_tape) - 1
             tape1 == [token_tape EXCEPT ![ind + 1] = Array(ind + 1)]
         IN  [Cur(d) EXCEPT !.state = state_of(token_tape, parent_ind),
                            !.tape = Append(tape1, End(ind)),
                            !.data = Tail(d)]

\* ParseOpen `{` and FirstValue: the provisional token at ind gets its tag,
\* its end slot keeps the enclosing container's index until it is closed
Classify(d, ind, tok, next, rest) ==
    IF ind < 0 \/ ind >= Len(token_tape) THEN Fail(d, Panic)
    ELSE [Cur(d) EXCEPT !.tape = [token_tape EXCEPT ![ind + 1] = tok],
                        !.parent_ind = ind, !.state = next, !.data = rest]

ParseOpenStep(d) ==
    IF d[1] = RBRACE THEN ParseOpenClose(d)
    ELSE IF d[1] = LBRACE
    THEN Classify(d, Len(token_tape) - 1, Array(parent_ind), "ArrayValue", d)
    ELSE IF d[1] = QUOTE THEN parse_quote_scalar(d, "FirstValue")
    ELSE parse_scalar(d, "FirstValue")

\* FirstValueStep that takes every container for an Array
FirstValueStepArray(d) ==
    Classify(d, Len(token_tape) - 2, Array(parent_ind), "ArrayValue",
             IF d[1] = EQUALS THEN Tail(d) ELSE d)

FirstValueStep(d) ==
    IF d[1] = EQUALS
    THEN Classify(d, Len(token_tape) - 2, Object(parent_ind), "ObjectValue", Tail(d))
    ELSE Classify(d, Len(token_tape) - 2, Array(parent_ind), "ArrayValue", d)

\* ArrayValue, `}`
ArrayClose(d) ==
    LET grand_ind == grand_ind_of(token_tape, parent_ind)
        end_idx == Len(token_tape)
    IN  IF parent_ind >= Len(token_tape) THEN Fail(d, Panic)
        ELSE [Cur(d) EXCEPT
                !.state = state_of(token_tape, grand_ind),
                !.tape = Append([token_tape EXCEPT ![parent_ind + 1] = Array(end_idx)],
                                End(parent_ind)),
                !.parent_ind = grand_ind, !.data = Tail(d)]

\* Vec::insert that writes over the element at index
insert_over(tape, index, tok) == [tape EXCEPT ![index + 1] = tok]

\* Vec::insert(index, element): panics when index > len
insert(tape, index, tok) == Take(tape, index) \o << tok >> \o Drop(tape, index)

\* ArrayValue, `=`: make the hidden object explicit
HiddenObject(d) ==
    IF Len(token_tape) < 1 THEN Fail(d, Panic)
    ELSE LET at == Len(token_tape) - 1
         IN  [Cur(d) EXCEPT !.hid = Some(parent_ind), !.parent_ind = at,
                            !.tape = insert(token_tape, at, Object(parent_ind)),
                            !.state = "ObjectValue", !.data = Tail(d),
                            !.hidden = hidden_objs \cup {at}]

ArrayValueStep(d) ==
    IF d[1] = LBRACE THEN OpenContainer(d)
    ELSE IF d[1] = RBRACE THEN ArrayClose(d)
    ELSE IF d[1] = QUOTE THEN parse_quote_scalar(d, "ArrayValue")
    ELSE IF d[1] = EQUALS THEN HiddenObject(d)
    ELSE parse_scalar(d, "ArrayValue")

\* the backtracked word `rgb`
push_rgb_word(u) ==
    [u EXCEPT !.state = "Key", !.tape = Append(u.tape, Scalar(flavor_scalar(RgbWord)))]

\* RgbOpenStep that also consumes the byte it looked at
RgbOpenStepConsuming(d) ==
    IF d[1] = LBRACE THEN [Cur(d) EXCEPT !.data = Tail(d), !.state = "RgbR"]
    ELSE push_rgb_word([Cur(d) EXCEPT !.data = Tail(d)])

RgbOpenStep(d) ==
    IF d[1] = LBRACE THEN [Cur(d) EXCEPT !.data = Tail(d), !.state = "RgbR"]
    ELSE push_rgb_word(Cur(d))

\* a channel kept at its full u64 value
channel_wide(r) == to_u64(r).val

\* `x as u32` of a decoded channel
channel(r) == as_u32(to_u64(r).val)

RgbRStep(d) ==
    LET sp == split_at_scalar(d)
    IN  IF to_u64(flavor_scalar(sp.scalar)).ok
        THEN [Cur(d) EXCEPT !.red = channel(flavor_scalar(sp.scalar)), !.state = "RgbG",
                            !.data = sp.rest]
        ELSE Fail(d, ErrInvalidSyntax(offset(d)))

\* RgbGStep that reports the offset behind the offending channel
RgbGStepOffsetBehind(d) ==
    LET sp == split_at_scalar(d)
    IN  IF to_u64(flavor_scalar(sp.scalar)).ok
        THEN [Cur(d) EXCEPT !.green = channel(flavor_scalar(sp.scalar)), !.state = "RgbB",
                            !.data = sp.rest]
        ELSE Fail(d, ErrInvalidSyntax(offset(sp.rest)))

RgbGStep(d) ==
    LET sp == split_at_scalar(d)
    IN  IF to_u64(flavor_scalar(sp.scalar)).ok
        THEN [Cur(d) EXCEPT !.green = channel(flavor_scalar(sp.scalar)), !.state = "RgbB",
                            !.data = sp.rest]
        ELSE Fail(d, ErrInvalidSyntax(offset(d)))

RgbBStep(d) ==
    LET sp == split_at_scalar(d)
    IN  IF to_u64(flavor_scalar(sp.scalar)).ok
        THEN [Cur(d) EXCEPT !.blue = channel(flavor_scalar(sp.scalar)), !.state = "RgbClose",
                            !.data = sp.rest]
        ELSE Fail(d, ErrInvalidSyntax(offset(d)))

\* RgbCloseStep with green and blue exchanged
RgbCloseStepSwapped(d) ==
    IF d[1] = RBRACE
    THEN [Cur(d) EXCEPT !.tape = Append(token_tape, Rgb(red, blue, green)),
                        !.data = Tail(d), !.state = "Key"]
    ELSE Fail(d, ErrInvalidSyntax(offset(d)))

RgbCloseStep(d) ==
    IF d[1] = RBRACE
    THEN [Cur(d) EXCEPT !.tape = Append(token_tape, Rgb(red, green, blue)),
                        !.data = Tail(d), !.state = "Key"]
    ELSE Fail(d, ErrInvalidSyntax(offset(d)))

\* the test that ends the parse with Ok at the end of the input
eof_ok(p, st) == p = 0 /\ st = "Key"

\* EofStep that drops the pending word rgb
EofStepWithoutWord(d) ==
    LET u == IF state = "RgbOpen" THEN [Cur(d) EXCEPT !.state = "Key"] ELSE Cur(d)
    IN  [u EXCEPT !.result = IF eof_ok(parent_ind, u.state) THEN Ok ELSE ErrEof]

\* data.is_empty() after skip_ws_t
EofStep(d) ==
    LET u == IF state = "RgbOpen" THEN push_rgb_word(Cur(d)) ELSE Cur(d)
    IN  [u EXCEPT !.result = IF eof_ok(parent_ind, u.state) THEN Ok ELSE ErrEof]


(***************************************************************************)
(* The inputs of the model.                                                *)
(***************************************************************************)
\* the longest input of Strings(Alphabet, MaxLen)
MaxLen == 6
\* the longest tail appended to a prefix
MaxTail == 4

\* the byte strings over A of length at most n
Strings(A, n) == UNION {[1 .. k -> A] : k \in 0 .. n}

Extend(prefix, A) == {prefix \o t : t \in Strings(A, MaxTail)}

\* a, `{`, `}`, `=`, space
Alphabet == {97, LBRACE, RBRACE, EQUALS, 32}
\* 1, 2, a, space, `{`, `}`
RgbAlphabet == {49, 50, 97, 32, LBRACE, RBRACE}
\* a, `"`, `\`
QuoteAlphabet == {97, QUOTE, BACKSLASH}
\* `{`, `}`, `=`, `#`, space, `"`
SyntaxAlphabet == {LBRACE, RBRACE, EQUALS, HASH, 32, QUOTE}
\* a, `#`, newline, space, `=`, `"`
CommentAlphabet == {97, HASH, NEWLINE, 32, EQUALS, QUOTE}
\* the longest input over CommentAlphabet
MaxCommentLen == 5

\* the inputs of the tests of src/src/text/tape.rs
TestInputs ==
    {
      \* test_simple_event
      <<102,111,111,61,98,97,114>>,
      \* test_error_offset
      <<102,111,111,61,123,125,125,32,97,61,99>>,
      \* test_simple_event_with_spaces
      <<32,32,9,9,32,102,111,111,32,61,98,97,114,32,13,10,100,101,102,61,9,113,117,120>>,
      \* test_scalars_with_quotes
      <<34,102,111,111,34,61,34,98,97,114,34,32,34,51,34,61,34,49,52,52,52,46,49,49,46,49,49,34>>,
      \* test_escaped_quotes
      <<110,97,109,101,32,61,32,34,74,111,101,32,92,34,67,97,112,116,97,105,110,92,34,32,82,111,103,101,114,115,34>>,
      \* test_escaped_quotes_short
      <<110,97,109,101,32,61,32,34,74,32,82,111,103,101,114,115,32,92,34,97,34>>,
      \* test_object_multi_field_event
      <<102,111,111,61,123,98,97,114,61,49,32,113,117,120,61,50,56,125>>,
      \* test_array_multievent
      <<118,101,114,115,105,111,110,115,61,123,13,10,9,34,49,46,50,56,46,51,46,48,34,13,10,32,102,111,111,125>>,
      \* test_no_equal_object_event
      <<102,111,111,123,98,97,114,61,113,117,120,125>>,
      \* test_empty_array
      <<100,105,115,99,111,118,101,114,101,100,95,98,121,61,123,125>>,
      \* test_array_of_objects
      <<115,116,97,116,115,61,123,123,105,100,61,48,32,116,121,112,101,61,103,101,110,101,114,97,108,125,32,123,105,100,61,49,32,116,121,112,101,61,97,100,109,105,114,97,108,125,125>>,
      \* test_empty_objects2
      <<102,111,111,61,123,98,97,114,61,118,97,108,32,123,125,125,32,109,101,61,121,111,117>>,
      \* test_mixed_object_array
      <<98,114,105,116,116,97,110,121,95,97,114,101,97,32,61,32,123,32,35,53,10,32,99,111,108,111,114,32,61,32,123,32,49,49,56,32,32,57,57,32,32,49,53,49,32,125,10,32,49,54,57,32,49,55,48,32,49,55,49,32,49,55,50,32,52,51,56,52,10,125>>,
      \* test_regression
      <<0,32,34,0>>,
      \* test_regression2
      <<0,4,33,0>>,
      \* test_too_heavily_nested (shortened)
      <<102,111,111,61,123,123,123,123,123,123>>,
      \* test_no_ws_comment
      <<102,111,111,61,97,98,99,35,100,101,102,10,98,97,114,61,113,117,120>>,
      \* test_equal_identifier
      <<61,61,34,98,97,114,34>>,
      \* test_terminating_comment
      <<35,32,98,111,111,13,10,35,32,98,97,97,13,10,102,111,111,61,97,13,10,35,32,98,101,101>>,
      \* test_rgb_trick
      <<110,97,109,101,32,61,32,114,103,98,32>>,
      \* test_rgb_trick2
      <<110,97,109,101,32,61,32,114,103,98,32,116,121,112,101,32,61,32,52,55,49,51>>,
      \* test_rgb_trick3
      <<110,97,109,101,32,61,32,114,103,98,101,102,102,101,99,116>>,
      \* test_rgb
      <<99,111,108,111,114,32,61,32,114,103,98,32,123,32,49,48,48,32,50,48,48,32,49,53,48,32,125,32>>,
      \* test_heterogenous_list
      <<108,101,118,101,108,115,61,123,32,49,48,32,48,61,50,32,49,61,50,32,125,32,102,111,111,61,123,98,97,114,61,113,117,120,125>>,
      \* test_hidden_object
      <<49,54,55,55,56,51,55,52,61,123,32,108,101,118,101,108,115,61,123,32,49,48,32,48,61,50,32,49,61,50,32,125,32,125>>,
      \* test_initial_end_does_not_panic
      <<125>>,
      \* test_escaped_quotes_crazy
      <<99,117,115,116,111,109,95,110,97,109,101,61,34,84,72,69,32,33,64,35,36,
        37,94,38,42,40,32,39,92,34,76,69,71,73,79,78,92,34,39,41,34>>
    }

\* rgb literals with a channel above u64::MAX:
\* a=rgb{18446744073709551616 2 3}   a=rgb{1 2 99999999999999999999}
RgbOverflowInputs ==
    { <<97,61,114,103,98,123,
        49,56,52,52,54,55,52,52,48,55,51,55,48,57,53,53,49,54,49,54,
        32,50,32,51,125>>,
      <<97,61,114,103,98,123,49,32,50,32,
        57,57,57,57,57,57,57,57,57,57,57,57,57,57,57,57,57,57,57,57,125>> }

\* rgb literals with channels above u32::MAX that to_u64 decodes:
\* a=rgb{4294967296 4294967301 1234567812345678}   a=rgb{12345678901 2 3}
RgbTruncatedInputs ==
    { <<97,61,114,103,98,123,52,50,57,52,57,54,55,50,57,54,32,
        52,50,57,52,57,54,55,51,48,49,32,
        49,50,51,52,53,54,55,56,49,50,51,52,53,54,55,56,125>>,
      <<97,61,114,103,98,123,49,50,51,52,53,54,55,56,57,48,49,32,50,32,51,125>> }

\* a `{` at key position with a comment before the next byte:
\* a=a { #a<newline>} a=a    and    a=a { #a<newline>a}
EmptyObjectInputs ==
    { <<97,61,97,32,LBRACE,32,HASH,97,NEWLINE,RBRACE,32,97,61,97>>,
      <<97,61,97,32,LBRACE,32,HASH,97,NEWLINE,97,RBRACE>> }

\* ==bar   ===bar   a={==bar}
EqualInputs ==
    { <<EQUALS,EQUALS,98,97,114>>,
      <<EQUALS,EQUALS,EQUALS,98,97,114>>,
      <<97,EQUALS,LBRACE,EQUALS,EQUALS,98,97,114,RBRACE>> }

\* the inputs given to a tape that is used again:
\* a={a=a}   a={1 a=2}   a={a   a=}   a=rgb{1 2 3}   a a   and the empty input,
\* a{a=a}   a=a   a={a a}   a{a a}
ReuseInputs ==
    { <<97,EQUALS,LBRACE,97,EQUALS,97,RBRACE>>,
      <<97,LBRACE,97,EQUALS,97,RBRACE>>,
      <<97,EQUALS,97>>,
      <<97,EQUALS,LBRACE,97,32,97,RBRACE>>,
      <<97,LBRACE,97,32,97,RBRACE>>,
      <<97,EQUALS,LBRACE,49,32,97,EQUALS,50,RBRACE>>,
      <<97,EQUALS,LBRACE,97>>,
      <<97,EQUALS,RBRACE>>,
      <<97,EQUALS,CH_r,CH_g,CH_b,LBRACE,49,32,50,32,51,RBRACE>>,
      <<97,32,97>>,
      << >> }

\* the most earlier calls on one tape
MaxCalls == 2

Inputs ==
    Strings(Alphabet, MaxLen)
    \* a{a a=   a{a a={   a{a a={a a=
    \cup Extend(<<97,123,97,32,97,61>>, Alphabet)
    \cup Extend(<<97,123,97,32,97,61,123>>, Alphabet)
    \cup Extend(<<97,123,97,32,97,61,123,97,32,97,61>>, Alphabet)
    \* a=rgb   a=rgb{   a=rgb{1 2
    \cup Extend(<<97,61,114,103,98>>, RgbAlphabet)
    \cup Extend(<<97,61,114,103,98,123>>, RgbAlphabet)
    \cup Extend(<<97,61,114,103,98,123,49,32,50>>, RgbAlphabet)
    \* a{a=rgb
    \cup Extend(<<97,123,97,61,114,103,98>>, RgbAlphabet)
    \* a="aaaaaa
    \cup Extend(<<97,61,34,97,97,97,97,97,97>>, QuoteAlphabet)
    \* syntax bytes behind an opening quote:  a={"   a="{}=# {
    \cup Extend(<<97,61,123,34>>, SyntaxAlphabet)
    \cup Extend(<<97,61,34,123,125,61,35,32,123>>, SyntaxAlphabet)
    \* comments and blanks between keys, values and quoted scalars
    \cup Strings(CommentAlphabet, MaxCommentLen)
    \cup TestInputs
    \cup RgbOverflowInputs
    \cup RgbTruncatedInputs
    \* a=rgb{1 2 429496729
    \cup Extend(<<97,61,114,103,98,123,49,32,50,32,52,50,57,52,57,54,55,50,57>>,
                RgbAlphabet)
    \cup EmptyObjectInputs
    \cup EqualInputs
    \cup ReuseInputs

(***************************************************************************)
(* The parse loop: skip_ws_t, the end-of-input test, then the arm of the   *)
(* current state.                                                          *)
(***************************************************************************)
\* no call has been recorded
NoCall == [input |-> << >>, result |-> Running, tape |-> << >>]

\* no conversion has been applied
NotConverted == [fn |-> "none", ok |-> FALSE, err |-> "", val |-> << >>]

Init ==
    /\ input \in Inputs
    /\ data = input
    /\ state = "Key"
    /\ token_tape = << >>
    /\ parent_ind = 0
    /\ array_ind_of_hidden_obj = None
    /\ red = << >>
    /\ green = << >>
    /\ blue = << >>
    /\ result = Running
    /\ hidden_objs = {}
    /\ calls = 0
    /\ first = NoCall
    /\ steps = 0
    /\ idle = 0
    /\ flavor = "Windows1252"
    /\ scalar = << >>
    /\ converted = NotConverted

Apply(u) ==
    /\ data' = u.data
    /\ state' = u.state
    /\ token_tape' = u.tape
    /\ parent_ind' = u.parent_ind
    /\ array_ind_of_hidden_obj' = u.hid
    /\ red' = u.red
    /\ green' = u.green
    /\ blue' = u.blue
    /\ result' = u.result
    /\ hidden_objs' = u.hidden
    /\ steps' = steps + 1
    /\ idle' = IF u.result = Running /\ Len(u.data) = Len(data) THEN idle + 1 ELSE 0
    /\ UNCHANGED << input, calls, first, flavor, scalar, converted >>

\* the loop is in state st with input left after skip_ws_t
At(st) == result = Running /\ state = st /\ skip_ws_t(data) # << >>

Eof == result = Running /\ skip_ws_t(data) = << >> /\ Apply(EofStep(<< >>))
EmptyObject == At("EmptyObject") /\ Apply(EmptyObjectStep(skip_ws_t(data)))
Key == At("Key") /\ Apply(KeyStep(skip_ws_t(data)))
KeyValueSeparator == At("KeyValueSeparator") /\ Apply(KeyValueSeparatorStep(skip_ws_t(data)))
ObjectValue == At("ObjectValue") /\ Apply(ObjectValueStep(skip_ws_t(data)))
ParseOpen == At("ParseOpen") /\ Apply(ParseOpenStep(skip_ws_t(data)))
FirstValue == At("FirstValue") /\ Apply(FirstValueStep(skip_ws_t(data)))
ArrayValue == At("ArrayValue") /\ Apply(ArrayValueStep(skip_ws_t(data)))
RgbOpen == At("RgbOpen") /\ Apply(RgbOpenStep(skip_ws_t(data)))
RgbR == At("RgbR") /\ Apply(RgbRStep(skip_ws_t(data)))
RgbG == At("RgbG") /\ Apply(RgbGStep(skip_ws_t(data)))
RgbB == At("RgbB") /\ Apply(RgbBStep(skip_ws_t(data)))
RgbClose == At("RgbClose") /\ Apply(RgbCloseStep(skip_ws_t(data)))

\* Vec::clear that leaves the tokens in place
clear_kept(tape) == tape

\* Vec::clear
clear(tape) == << >>

\* parse_slice_into_tape on the tape of a call that has returned: the tape is
\* cleared and a new ParserState starts on the new data
ParseSliceIntoTape ==
    /\ result # Running
    /\ calls < MaxCalls
    /\ input \in ReuseInputs
    /\ \E d \in ReuseInputs : input' = d /\ data' = d
    /\ token_tape' = clear(token_tape)
    /\ state' = "Key"
    /\ parent_ind' = 0
    /\ array_ind_of_hidden_obj' = None
    /\ red' = << >>
    /\ green' = << >>
    /\ blue' = << >>
    /\ result' = Running
    /\ hidden_objs' = {}
    /\ calls' = calls + 1
    /\ first' = IF calls = 0
                THEN [input |-> input, result |-> result, tape |-> token_tape]
                ELSE first
    /\ steps' = 0
    /\ idle' = 0
    /\ UNCHANGED << flavor, scalar, converted >>

Next ==
    \/ Eof
    \/ EmptyObject
    \/ Key
    \/ KeyValueSeparator
    \/ ObjectValue
    \/ ParseOpen
    \/ FirstValue
    \/ ArrayValue
    \/ RgbOpen
    \/ RgbR
    \/ RgbG
    \/ RgbB
    \/ RgbClose
    \/ ParseSliceIntoTape

Spec == Init /\ [][Next]_vars

(***************************************************************************)
(* The conversions of a scalar: the bytes are drawn from the sets below    *)
(* and one of to_u64, to_i64, to_f64 is applied to them.                   *)
(***************************************************************************)
MaxScalarLen == 4
MaxScalarTail == 2

\* 0, 1, 9, `-`, `.`, a
ScalarAlphabet == {CH_0, 49, CH_9, MINUS, DOT, 97}
Digits == CH_0 .. CH_9

ScalarExtend(prefix, A) == {prefix \o t : t \in Strings(A, MaxScalarTail)}

\* the scalars of the tests of src/src/scalar.rs
ScalarTestInputs ==
    { <<48>>,
      <<49>>,
      <<45,49>>,
      <<45,49,48,48,48,48>>,
      <<49,48,48,48,48>>,
      <<50,48,52,48,53,48,50,57>>,
      <<45,50,48,52,48,53,48,50,57>>,
      <<50,48,52,48,53,48,50,57,53,53,51,51,50,50>>,
      <<45,50,48,52,48,53,48,50,57,53,53,51,51,50,50>>,
      <<52,53>>,
      <<48,46,53,48,52>>,
      <<49,46,48,48,49,50,53>>,
      <<45,49,46,53,48,48,48,48>>,
      <<45,49,48,48,48,48,46,48>>,
      <<49,48,48,48,48,46,48,48,48>>,
      <<50,48,52,48,53,48,50,57,46,49,50,53>>,
      <<45,50,48,52,48,53,48,50,57,46,49,50,53>>,
      <<50,48,52,48,53,48,50,57,53,53,51,51,50,50,46,48,49,53>>,
      <<45,50,48,52,48,53,48,50,57,53,53,51,51,50,50,46,48,49,53>>,
      <<56,56,56,56,56,56,56,56,56,56,56,56,56,56,56,56,56,56,56,56,56,56,56,56,56,56,56,56,56,56,56,56,56>>,
      <<54,54,54,54,54,54,54,54,54,54,54,54,54,54,54,54,56,53,57,48,50>>,
      <<57,57,57,57,57,57,57,57,57,57,46,57,57,57,57,57,57,57,57,57,57,57,57,57,57,57,57,57>>,
      <<57,57,57,57,57,57,57,57,57,57,57,57,57,57,57,57,57,57,57,57,57,46,57,57,57,57,57,57,57,57,57>>,
      <<49,48,46,57,57,57,57,57,57,57,48,57,57,57,57,57,57,57,57,57,57,57,57,57,57,57>>,
      <<49,48,46,57,57,57,57,57,57,57,57,57,57,57,57,57,57>> }

\* digits for which to_u64 returns 2^63, bare and behind a `-`:
\* 9223371944621056808
I64MinInputs ==
    { <<57,50,50,51,51,55,49,57,52,52,54,50,49,48,53,54,56,48,56>>,
      <<45,57,50,50,51,51,55,49,57,52,52,54,50,49,48,53,54,56,48,56>> }

\* the same digits behind a `-` as an integer part, with one and with ten
\* fractional digits: -9223371944621056808.5  -9223371944621056808.0000000000
I64MinFractionInputs ==
    { <<45,57,50,50,51,51,55,49,57,52,52,54,50,49,48,53,54,56,48,56,46,53>>,
      <<45,57,50,50,51,51,55,49,57,52,52,54,50,49,48,53,54,56,48,56,46,
        48,48,48,48,48,48,48,48,48,48>> }

MaxBoolLen == 4
\* y, e, s, n, o, Y, blank
BoolAlphabet == {121, 101, 115, 110, 111, 89, 32}

MaxTextLen == 4
\* a, `\`, `"`, blank, newline, 0x8A
TextAlphabet == {97, BACKSLASH, QUOTE, 32, NEWLINE, 138}

\* the byte strings of the tests of src/src/scalar.rs
TextTestInputs ==
    { <<255>>,
      <<138>>,
      <<104,101,108,108,111,32,119,111,114,108,100>>,
      <<104,105,129,138>>,
      <<254,255,254,255,254,255,254,255,254,255>>,
      <<110,101,119,10>>,
      <<9>>,
      <<74,111,101,32,92,34,67,97,112,116,97,105,110,92,34,32,82,111,103,101,114,115>>,
      <<129,141,143,144,157>> }

ScalarInputs ==
    Strings(ScalarAlphabet, MaxScalarLen)
    \* one chunk of eight digits; fourteen digits, two chunks with the tail
    \cup ScalarExtend(<<49,50,51,52,53,54,55,56>>, Digits)
    \cup ScalarExtend(<<49,50,51,52,53,54,55,56,49,50,51,52,53,54>>, Digits)
    \* a first chunk of zeros
    \cup ScalarExtend(<<48,48,48,48,48,48,48,48,49,50,51,52,53,54>>, Digits)
    \* around u64::MAX = 18446744073709551615, and beyond twenty digits
    \cup ScalarExtend(<<49,56,52,52,54,55,52,52,48,55,51,55,48,57,53,53,49,54>>, Digits)
    \cup ScalarExtend(<<49,56,52,52,54,55,52,52,48,55,51,55,48,57,53,53,49,54,49>>, Digits)
    \* around i64::MAX = 9223372036854775807 and i64::MIN
    \cup ScalarExtend(<<57,50,50,51,51,55,50,48,51,54,56,53,52,55,55,53,56>>, Digits)
    \cup ScalarExtend(<<45,57,50,50,51,51,55,50,48,51,54,56,53,52,55,55,53,56>>, Digits)
    \* eight fractional digits and more
    \cup ScalarExtend(<<49,46,49,50,51,52,53,54,55,56>>, Digits)
    \cup ScalarExtend(<<45,48,46>>, Digits)
    \cup ScalarTestInputs
    \cup I64MinInputs
    \cup I64MinFractionInputs
    \cup Strings(BoolAlphabet, MaxBoolLen)
    \cup Strings(TextAlphabet, MaxTextLen)
    \* seven and eight bytes a, and a chunk with an escaped quote
    \cup ScalarExtend(<<97,97,97,97,97,97,97>>, TextAlphabet)
    \cup ScalarExtend(<<97,97,97,97,97,97,97,97>>, TextAlphabet)
    \cup ScalarExtend(<<97,97,97,92,34,97,97,97,97>>, TextAlphabet)
    \cup TextTestInputs

ScalarInit ==
    /\ scalar \in ScalarInputs
    /\ converted = NotConverted
    /\ input = << >>
    /\ data = << >>
    /\ state = "Key"
    /\ token_tape = << >>
    /\ parent_ind = 0
    /\ array_ind_of_hidden_obj = None
    /\ red = << >>
    /\ green = << >>
    /\ blue = << >>
    /\ result = Running
    /\ hidden_objs = {}
    /\ calls = 0
    /\ first = NoCall
    /\ steps = 0
    /\ idle = 0
    /\ flavor = "Windows1252"

\* the outcome r of conversion fn
Converted(fn, r) ==
    /\ converted.fn = "none"
    /\ converted' = [fn |-> fn, ok |-> r.ok, err |-> r.err, val |-> r.val]
    /\ UNCHANGED << input, data, state, token_tape, parent_ind,
                    array_ind_of_hidden_obj, red, green, blue, result,
                    hidden_objs, calls, first, steps, idle, flavor, scalar >>

\* Scalar::to_u64, to_i64, to_f64, to_bool on the bytes of the scalar; the build is
\* one with or without arithmetic overflow checks
Scalar_to_u64 == Converted("to_u64", to_u64(scalar))
Scalar_to_i64 ==
    \E overflow_checks \in BOOLEAN : Converted("to_i64", to_i64(scalar, overflow_checks))
Scalar_to_f64 ==
    \E overflow_checks \in BOOLEAN : Converted("to_f64", to_f64(scalar, overflow_checks))

Scalar_to_bool == Converted("to_bool", to_bool(scalar))
Scalar_to_utf8 == Converted("to_utf8", NumOk(windows_1252_to_utf8(scalar)))

ScalarNext ==
    \/ Scalar_to_u64
    \/ Scalar_to_i64
    \/ Scalar_to_f64
    \/ Scalar_to_bool
    \/ Scalar_to_utf8

ScalarSpec == ScalarInit /\ [][ScalarNext]_vars

(***************************************************************************)
(* The two parsers on the same data: TextParser::from_windows1252(data)    *)
(* and then TextParser::from_utf8(data), each into a tape of its own.      *)
(***************************************************************************)
MaxEncodingLen == 5

\* bytes of syntax and the two bytes of a-ring in UTF-8
EncodingAlphabet == {97, EQUALS, LBRACE, RBRACE, QUOTE, 195, 165}

\* test_utf8_parser and rgb literals with a channel that is not ASCII:
\* a=rgb{1 <a-ring> 3}   a=rgb<a-ring>
EncodingInputs ==
    Strings(EncodingAlphabet, MaxEncodingLen)
    \cup TestInputs
    \cup RgbTruncatedInputs
    \cup EmptyObjectInputs
    \cup {
      <<109,101,116,97,95,116,105,116,108,101,95,110,97,109,101,61,34,67,104,105,
        101,102,100,111,109,32,111,102,32,74,195,165,104,107,195,165,109,195,165,104,
        107,107,101,34>>,
      <<97,EQUALS,CH_r,CH_g,CH_b,LBRACE,49,32,195,165,32,51,RBRACE>>,
      <<97,EQUALS,CH_r,CH_g,CH_b,195,165>> }

EncodingInit ==
    /\ input \in EncodingInputs
    /\ data = input
    /\ state = "Key"
    /\ token_tape = << >>
    /\ parent_ind = 0
    /\ array_ind_of_hidden_obj = None
    /\ red = << >>
    /\ green = << >>
    /\ blue = << >>
    /\ result = Running
    /\ hidden_objs = {}
    /\ calls = 0
    /\ first = NoCall
    /\ steps = 0
    /\ idle = 0
    /\ flavor = "Windows1252"
    /\ scalar = << >>
    /\ converted = NotConverted

\* TextParser::from_utf8 on the data the Windows-1252 parser has returned
\* from: a parser with the other encoding, a new tape, a new ParserState
FromUtf8 ==
    /\ result # Running
    /\ flavor = "Windows1252"
    /\ flavor' = "Utf8"
    /\ data' = input
    /\ token_tape' = << >>
    /\ state' = "Key"
    /\ parent_ind' = 0
    /\ array_ind_of_hidden_obj' = None
    /\ red' = << >>
    /\ green' = << >>
    /\ blue' = << >>
    /\ result' = Running
    /\ hidden_objs' = {}
    /\ calls' = calls + 1
    /\ first' = [input |-> input, result |-> result, tape |-> token_tape]
    /\ steps' = 0
    /\ idle' = 0
    /\ UNCHANGED << input, scalar, converted >>

EncodingNext ==
    \/ Eof
    \/ EmptyObject
    \/ Key
    \/ KeyValueSeparator
    \/ ObjectValue
    \/ ParseOpen
    \/ FirstValue
    \/ ArrayValue
    \/ RgbOpen
    \/ RgbR
    \/ RgbG
    \/ RgbB
    \/ RgbClose
    \/ FromUtf8

EncodingSpec == EncodingInit /\ [][EncodingNext]_vars


(***************************************************************************)
(* The vocabulary of the tape invariants.  Positions and end slots count   *)
(* from 0, as the tape does.                                               *)
(***************************************************************************)
Positions(tape) == 0 .. Len(tape) - 1

\* t is the token End(p)
IsEnd(t, p) == t.tag = "End" /\ t.val = p

\* t is the token tok
Is(t, tok) == t.tag = tok.tag /\ t.val = tok.val

\* the tape holds exactly the tokens toks
TapeIs(tape, toks) ==
    /\ Len(tape) = Len(toks)
    /\ \A i \in 1 .. Len(toks) : Is(tape[i], toks[i])

\* an End token naming the container at p is on the tape
Closed(tape, p) == \E e \in Positions(tape) : IsEnd(tape[e + 1], p)

\* the containers of the tape that no End token names
OpenContainers(tape) ==
    {p \in Positions(tape) : IsOpen(tape[p + 1]) /\ ~Closed(tape, p)}

\* the end slot of the container at p names an End token that names p back,
\* and the start slot of the End token at p names a container that names p
Paired(tape) ==
    \A p \in Positions(tape) :
        LET t == tape[p + 1]
        IN  /\ IsOpen(t) => IsEnd(Get(tape, t.val), p)
            /\ t.tag = "End" =>
                   IsOpen(Get(tape, t.val)) /\ Get(tape, t.val).val = p

\* two containers are disjoint or one lies strictly inside the other
NestStrictly(tape) ==
    \A p, q \in Positions(tape) :
        (p < q /\ IsOpen(tape[p + 1]) /\ IsOpen(tape[q + 1])) =>
            LET ep == tape[p + 1].val
                eq == tape[q + 1].val
            IN  ep < q \/ (q < eq /\ eq < ep)

\* the number of value-spans in positions i .. e - 1: a Scalar, an Rgb or a
\* whole container (its opening token up to its End token) counts as one
RECURSIVE ValueSpans(_, _, _)
ValueSpans(tape, i, e) ==
    IF i >= e \/ i >= Len(tape) THEN 0
    ELSE LET t == tape[i + 1]
         IN  IF IsOpen(t) /\ t.val > i
             THEN 1 + ValueSpans(tape, t.val + 1, e)
             ELSE IF t.tag = "End" THEN ValueSpans(tape, i + 1, e)
             ELSE 1 + ValueSpans(tape, i + 1, e)

Objects(tape) == {p \in Positions(tape) : tape[p + 1].tag = "Object"}

(***************************************************************************)
(* C1                                                                      *)
(***************************************************************************)
\* C1: after every successful parse the tape is paired: every Array(e) and
\* Object(e) at position p has the token End(p) at position e, and every
\* End(s) at position p has at position s an Array or Object whose end slot
\* is p.  The parser breaks this: a `=` that follows a closed container in an
\* array inserts the hidden Object before that container's End token, and an
\* object opened inside a hidden object closes the array around it.
C1_PairedLinkage == result.kind = "Ok" => Paired(token_tape)

(***************************************************************************)
(* C2                                                                      *)
(***************************************************************************)
\* C2: after every successful parse any two containers at positions p < q
\* with end slots ep and eq are disjoint (ep < q) or nested (q < eq < ep).
\* The hidden Object inserted before an End token breaks this.
C2_ContainersNest == result.kind = "Ok" => NestStrictly(token_tape)

C4_NeverPanics == result.kind # "Panic"

\* a lone `}` ends with StackEmpty at offset 0 on an empty tape
C4_Witness ==
    /\ input = << RBRACE >>
    /\ result = ErrStackEmpty(0)
    /\ token_tape = << >>

(***************************************************************************)
(* C5                                                                      *)
(***************************************************************************)
\* the loop found the input empty after skip_ws_t and returned
EofReached == result.kind \in {"Ok", "Eof"} /\ data = << >>

\* C5: a parse that reaches the end of the input returns Ok exactly when the
\* state is Key and no container is open, and the error Eof otherwise.  The
\* parser returns Ok with an Object still open: the `}` of an object inside
\* a hidden object also closes the array around the hidden object and sets
\* parent_ind to that array's parent.
C5_EofOkIffClosed ==
    EofReached =>
        (result.kind = "Ok" <=>
            (state = "Key" /\ OpenContainers(token_tape) = {}))

(***************************************************************************)
(* C6                                                                      *)
(***************************************************************************)
\* the loop is about to read a `}` that closes a container or fails
AtClose ==
    /\ result = Running
    /\ state \in {"Key", "ArrayValue", "ParseOpen"}
    /\ skip_ws_t(data) # << >>
    /\ skip_ws_t(data)[1] = RBRACE

\* C6: a `}` read while no container is open fails with StackEmpty whose
\* offset is the index of that `}`, and a `}` read while a container is open
\* never gives StackEmpty.  The second half fails: after the `}` of an
\* object inside a hidden object the hidden Object is still open, and the
\* next `}` gives StackEmpty.
C6_StackEmpty ==
    [][AtClose =>
        IF OpenContainers(token_tape) = {}
        THEN result' = ErrStackEmpty(Len(input) - Len(skip_ws_t(data)))
        ELSE result'.kind # "StackEmpty"]_vars


(***************************************************************************)
(* C7                                                                      *)
(***************************************************************************)
\* the loop is about to read a `=` in an array whose last element is a scalar
AtHiddenKey ==
    /\ result = Running
    /\ state = "ArrayValue"
    /\ skip_ws_t(data) # << >>
    /\ skip_ws_t(data)[1] = EQUALS
    /\ token_tape # << >>
    /\ token_tape[Len(token_tape)].tag = "Scalar"

\* the step inserts an Object token immediately before the last element
InsertsHiddenObject ==
    LET n == Len(token_tape)
    IN  /\ Len(token_tape') = n + 1
        /\ SubSeq(token_tape', 1, n - 1) = SubSeq(token_tape, 1, n - 1)
        /\ token_tape'[n].tag = "Object"
        /\ token_tape'[n + 1] = token_tape[n]
        /\ hidden_objs' = hidden_objs \cup {n - 1}

\* the hidden Objects that were inserted before a scalar element
HiddenBeforeScalar ==
    {h \in hidden_objs : Get(token_tape, h + 1).tag = "Scalar"}

\* the step closes the hidden Object at h and the Array around it, whose
\* index the open Object keeps in its end slot
ClosesHiddenObject(h) ==
    LET n == Len(token_tape)
        array_ind == token_tape[h + 1].val
    IN  /\ Len(token_tape') = n + 2
        /\ IsEnd(token_tape'[n + 1], h)
        /\ IsEnd(token_tape'[n + 2], array_ind)
        /\ token_tape'[h + 1] = Object(n)
        /\ token_tape'[array_ind + 1] = Array(n + 1)

\* C7: a `=` behind a scalar element of an array inserts an Object token
\* immediately before that element, and the `}` that closes the hidden
\* Object appends exactly End(hidden Object) and End(enclosing Array), one
\* after the other, the Object's end slot naming the first and the Array's
\* the second.  The second half fails when a second hidden object is opened
\* inside the first: the `}` of the outer one appends a single End.
C7_HiddenObject ==
    [][/\ AtHiddenKey => InsertsHiddenObject
       /\ \A h \in HiddenBeforeScalar :
              (~Closed(token_tape, h) /\ Closed(token_tape', h))
                  => ClosesHiddenObject(h)]_vars

(***************************************************************************)
(* C8                                                                      *)
(***************************************************************************)
\* a hidden Object was inserted at h2 while the hidden Object at h1 was
\* open: no End(h1) stood before h2
HiddenInHidden(tape, hidden) ==
    \E h1, h2 \in hidden :
        /\ h1 < h2
        /\ ~\E e \in Positions(tape) : e < h2 /\ IsEnd(tape[e + 1], h1)

\* C8: an input in which a hidden object is opened inside a value of another
\* hidden object that is still open is never parsed with Ok.  The parser
\* accepts a{a a={a a=a}}} : the nested one overwrites
\* array_ind_of_hidden_obj and one more `}` balances the tape.
C8_NestedHiddenRejected ==
    ~(result.kind = "Ok" /\ HiddenInHidden(token_tape, hidden_objs))


(***************************************************************************)
(* C9                                                                      *)
(***************************************************************************)
NoScalar == [scalar |-> << >>, rest |-> << >>]

\* an rgb literal at the front of d, read with the lexer alone: the word
\* rgb, a boundary byte, `{`, three scalars that decode as unsigned
\* integers, `}`.  at_open .. at_close are the inputs left before the `{`,
\* each channel and the `}`.
RgbLiteral(d) ==
    LET at_open == IF Len(d) > 3 THEN skip_ws_t(Drop(d, 3)) ELSE << >>
        at_r == IF at_open # << >> THEN skip_ws_t(Tail(at_open)) ELSE << >>
        r == IF at_r # << >> THEN split_at_scalar(at_r) ELSE NoScalar
        at_g == skip_ws_t(r.rest)
        g == IF at_g # << >> THEN split_at_scalar(at_g) ELSE NoScalar
        at_b == skip_ws_t(g.rest)
        b == IF at_b # << >> THEN split_at_scalar(at_b) ELSE NoScalar
        at_close == skip_ws_t(b.rest)
    IN  [ok |-> /\ Len(d) > 3
                /\ Take(d, 3) = RgbWord
                /\ is_boundary(d[4])
                /\ at_open # << >> /\ at_open[1] = LBRACE
                /\ to_u64(r.scalar).ok
                /\ to_u64(g.scalar).ok
                /\ to_u64(b.scalar).ok
                /\ at_close # << >> /\ at_close[1] = RBRACE,
         at_open |-> at_open, at_r |-> at_r, at_g |-> at_g, at_b |-> at_b,
         at_close |-> at_close,
         r |-> channel(r.scalar), g |-> channel(g.scalar), b |-> channel(b.scalar)]

\* the step of the loop across the rgb literal m that starts at d0
ReadsRgbLiteral(d0, m) ==
    LET d == skip_ws_t(data)
        quiet == token_tape' = token_tape /\ result' = Running
    IN  /\ (state = "ObjectValue" /\ d = d0) => state' = "RgbOpen" /\ quiet
        /\ (state = "RgbOpen" /\ d = m.at_open) => state' = "RgbR" /\ quiet
        /\ (state = "RgbR" /\ d = m.at_r) =>
               state' = "RgbG" /\ quiet /\ red' = m.r
        /\ (state = "RgbG" /\ d = m.at_g) =>
               state' = "RgbB" /\ quiet /\ red' = red /\ green' = m.g
        /\ (state = "RgbB" /\ d = m.at_b) =>
               /\ state' = "RgbClose" /\ quiet
               /\ red' = red /\ green' = green /\ blue' = m.b
        /\ (state = "RgbClose" /\ d = m.at_close) =>
               /\ token_tape' = Append(token_tape, Rgb(m.r, m.g, m.b))
               /\ state' = "Key"
               /\ result' = Running
               /\ data' = Tail(m.at_close)

RgbStates == {"ObjectValue", "RgbOpen", "RgbR", "RgbG", "RgbB", "RgbClose"}

\* C9: when the loop reads, at object-value position, the word rgb, a
\* boundary byte and then `{ R G B }` with three scalars that decode as
\* unsigned integers, it appends no token before the `}`, appends exactly
\* the token Rgb(R, G, B) at the `}`, channels in that order, and goes on in
\* state Key behind the `}`.
C9_RgbLiteral ==
    [][(result = Running /\ state \in RgbStates) =>
          \A k \in 0 .. Len(input) - 1 :
              RgbLiteral(Drop(input, k)).ok =>
                  ReadsRgbLiteral(Drop(input, k), RgbLiteral(Drop(input, k)))]_vars

\* a=rgb{1 21 2} has been read: Scalar a, Rgb(1, 21, 2), state Key
C9_Witness ==
    /\ state = "Key"
    /\ data = << >>
    /\ TapeIs(token_tape, << Scalar(<<97>>), Rgb(NumOf(1), NumOf(21), NumOf(2)) >>)

(***************************************************************************)
(* C10                                                                     *)
(***************************************************************************)
\* the longest prefix of d without a boundary byte
Word(d) ==
    Take(d, Min({i \in 1 .. Len(d) : is_boundary(d[i])} \cup {Len(d) + 1}) - 1)

\* d starts with the word rgb and one more byte
RgbThen(d) == Len(d) > 3 /\ Take(d, 3) = RgbWord

\* C10: at object-value position the word rgb before a boundary byte leads
\* to state RgbOpen without a token; there, when the next byte behind
\* whitespace and comments is not `{`, the loop appends Scalar rgb, leaves
\* that byte unread and goes on in state Key.  The word rgb before another
\* byte, as in rgbeffect, is appended whole as one Scalar.
C10_RgbWord ==
    [][result = Running =>
          LET d == skip_ws_t(data)
          IN  /\ (state = "ObjectValue" /\ RgbThen(d) /\ is_boundary(d[4])) =>
                     /\ state' = "RgbOpen"
                     /\ data' = Drop(d, 3)
                     /\ token_tape' = token_tape
              /\ (state = "RgbOpen" /\ d # << >> /\ d[1] # LBRACE) =>
                     /\ token_tape' = Append(token_tape, Scalar(RgbWord))
                     /\ data' = d
                     /\ state' = "Key"
                     /\ result' = Running
              /\ (state = "ObjectValue" /\ RgbThen(d) /\ ~is_boundary(d[4])) =>
                     /\ token_tape' = Append(token_tape, Scalar(Word(d)))
                     /\ Len(Word(d)) > 3
                     /\ data' = Drop(d, Len(Word(d)))
                     /\ state' = "Key"
                     /\ result' = Running]_vars

\* name = rgb type = 4713 has been read: rgb is a value, type the next key
C10_Witness ==
    /\ result.kind = "Ok"
    /\ TapeIs(token_tape,
              << Scalar(<<110,97,109,101>>), Scalar(RgbWord),
                 Scalar(<<116,121,112,101>>), Scalar(<<52,55,49,51>>) >>)

(***************************************************************************)
(* C11                                                                     *)
(***************************************************************************)
\* the input is exhausted while the pending state is RgbOpen
EofInRgbOpen == result = Running /\ state = "RgbOpen" /\ skip_ws_t(data) = << >>

\* C11 as stated: when the input is exhausted in state RgbOpen the word rgb
\* is appended as a plain Scalar and the parse returns Ok.
C11_RgbWordAtEofOk ==
    [][EofInRgbOpen =>
          /\ token_tape' = Append(token_tape, Scalar(RgbWord))
          /\ result' = Ok]_vars

\* C11: when the input is exhausted in state RgbOpen the word rgb is
\* appended as a plain Scalar; the parse returns Ok when the word stands at
\* the top level (parent index 0) and Eof when a container is open around it.
C11_RgbWordAtEof ==
    [][EofInRgbOpen =>
          /\ token_tape' = Append(token_tape, Scalar(RgbWord))
          /\ state' = "Key"
          /\ result' = IF parent_ind = 0 THEN Ok ELSE ErrEof]_vars

\* a{a=rgb with a blank behind it: the word is on the tape, the object that
\* holds it is open, and the parse has ended with Eof
C11_Witness ==
    /\ result = ErrEof
    /\ parent_ind # 0
    /\ TapeIs(token_tape,
              << Scalar(<<97>>), Object(0), Scalar(<<97>>), Scalar(RgbWord) >>)

(***************************************************************************)
(* C12                                                                     *)
(***************************************************************************)
\* the number that a sequence of ASCII digits writes
DecimalValue(s) == NumNorm(Rev([i \in 1 .. Len(s) |-> s[i] - CH_0]))

\* s is the decimal text of an unsigned 64-bit integer
DecodesUnsigned(s) ==
    s # << >> /\ is_digits(s) /\ NumLeq(DecimalValue(s), U64_MAX)

\* the parse fails with InvalidSyntax at the first byte of d, a suffix of the
\* input, and the tape stays as it is
RejectedAt(d) ==
    /\ result' = ErrInvalidSyntax(Len(input) - Len(d))
    /\ Drop(input, result'.offset) = d
    /\ token_tape' = token_tape
    /\ \A i \in 1 .. Len(token_tape') : token_tape'[i].tag # "Rgb"

\* C12: behind `rgb {`, a channel that is not the decimal text of an
\* unsigned integer, or a byte other than `}` behind the third channel,
\* ends the parse with InvalidSyntax whose offset is the input index of the
\* first byte of that channel or of that byte; no Rgb token is appended.
C12_RgbRejected ==
    [][result = Running =>
          LET d == skip_ws_t(data)
          IN  /\ (state \in {"RgbR", "RgbG", "RgbB"} /\ d # << >>
                    /\ ~DecodesUnsigned(Word(d))) => RejectedAt(d)
              /\ (state = "RgbClose" /\ d # << >> /\ d[1] # RBRACE) =>
                     RejectedAt(d)]_vars

\* a=rgb{1 2a : the green channel 2a starts at index 8 and is rejected there
C12_Witness ==
    /\ result = ErrInvalidSyntax(8)
    /\ state = "RgbG"
    /\ input[9] = 50 /\ input[10] = 97
    /\ TapeIs(token_tape, << Scalar(<<97>>) >>)

(***************************************************************************)
(* C13, C14                                                                *)
(***************************************************************************)
\* the step leaves the tape and the parent linkage as they are
LinkageUnchanged ==
    /\ token_tape' = token_tape
    /\ parent_ind' = parent_ind
    /\ array_ind_of_hidden_obj' = array_ind_of_hidden_obj

\* a `{` is read in state Key: the byte is consumed and nothing else changes
ReadsBraceAtKey(d) ==
    (state = "Key" /\ d # << >> /\ d[1] = LBRACE) =>
        /\ state' = "EmptyObject"
        /\ data' = Tail(d)
        /\ result' = Running
        /\ LinkageUnchanged

\* C13: a `{` read in state Key that is followed, behind whitespace and
\* comments, by `}` consumes both bytes, appends no token, leaves every tape
\* entry and the parent linkage unchanged, and returns to state Key.
C13_EmptyObjectSkipped ==
    [][result = Running =>
          LET d == skip_ws_t(data)
          IN  /\ ReadsBraceAtKey(d)
              /\ (state = "EmptyObject" /\ d # << >> /\ d[1] = RBRACE) =>
                     /\ state' = "Key"
                     /\ data' = Tail(d)
                     /\ result' = Running
                     /\ LinkageUnchanged]_vars

\* test_empty_objects2: foo={bar=val {}} me=you
C13_Witness ==
    /\ result = Ok
    /\ Len(input) = 23 /\ input[14] = LBRACE /\ input[15] = RBRACE
    /\ TapeIs(token_tape,
              << Scalar(<<102,111,111>>), Object(4), Scalar(<<98,97,114>>),
                 Scalar(<<118,97,108>>), End(1), Scalar(<<109,101>>),
                 Scalar(<<121,111,117>>) >>)

\* C14: a `{` read in state Key whose next byte behind whitespace and
\* comments exists and is not `}` ends the parse with InvalidEmptyObject
\* whose offset is the input index of that byte.
C14_InvalidEmptyObject ==
    [][result = Running =>
          LET d == skip_ws_t(data)
          IN  /\ ReadsBraceAtKey(d)
              /\ (state = "EmptyObject" /\ d # << >> /\ d[1] # RBRACE) =>
                     /\ result' = ErrInvalidEmptyObject(Len(input) - Len(d))
                     /\ Drop(input, result'.offset) = d
                     /\ input[result'.offset + 1] # RBRACE]_vars

\* a=a { #a<newline>a} : the byte a at index 9, behind the comment, is rejected
C14_Witness ==
    /\ result = ErrInvalidEmptyObject(9)
    /\ input[5] = LBRACE /\ input[7] = HASH /\ input[10] = 97
    /\ state = "EmptyObject"

(***************************************************************************)
(* C16                                                                     *)
(***************************************************************************)
EqualScalar == Scalar(<< EQUALS >>)
Bar == <<98,97,114>>

\* the input starts with `==`
StartsWithTwoEquals == Len(input) >= 2 /\ input[1] = EQUALS /\ input[2] = EQUALS

\* C16 as stated: an input that starts with `==` at key position emits two
\* `=` scalars; ==bar parses as the scalars `=`, `=`, bar.
C16_TwoEqualScalars ==
    (result = Ok /\ StartsWithTwoEquals) =>
        /\ Len(token_tape) >= 2
        /\ Is(token_tape[1], EqualScalar)
        /\ Is(token_tape[2], EqualScalar)
        /\ (input = << EQUALS, EQUALS >> \o Bar =>
               TapeIs(token_tape, << EqualScalar, EqualScalar, Scalar(Bar) >>))

\* C16: `==` at key position emits one `=` scalar: the first `=` is read as
\* a key of one byte, the second is consumed as the key/value separator
\* without a token, and what follows is read as the value; ==bar parses as
\* the scalars `=`, bar.
C16_EqualKey ==
    /\ [][result = Running =>
             LET d == skip_ws_t(data)
             IN  /\ (state = "Key" /\ Len(d) >= 2 /\ d[1] = EQUALS
                       /\ d[2] = EQUALS) =>
                        /\ token_tape' = Append(token_tape, EqualScalar)
                        /\ data' = Tail(d)
                        /\ state' = "KeyValueSeparator"
                 /\ (state = "KeyValueSeparator" /\ d # << >>
                       /\ d[1] = EQUALS) =>
                        /\ token_tape' = token_tape
                        /\ data' = Tail(d)
                        /\ state' = "ObjectValue"]_vars
    /\ [](input = << EQUALS, EQUALS >> \o Bar /\ result # Running =>
             result = Ok /\ TapeIs(token_tape, << EqualScalar, Scalar(Bar) >>))

\* ==bar has been parsed: one `=` scalar, then bar
C16_Witness ==
    /\ input = << EQUALS, EQUALS >> \o Bar
    /\ result = Ok
    /\ TapeIs(token_tape, << EqualScalar, Scalar(Bar) >>)

(***************************************************************************)
(* C17                                                                     *)
(***************************************************************************)
\* the call in progress is a later call on a used tape, with the data of the
\* first call, which was made on a fresh tape
LaterCallOnFirstData == calls > 0 /\ first.input = input

\* C17: after any earlier parse_slice_into_tape calls on the same tape,
\* successful or failed, a successful parse_slice_into_tape(data, tape)
\* leaves the tape equal to the tape of parse_slice(data) on a fresh tape:
\* no token of an earlier parse survives and no index is offset.
C17_TapeReused ==
    (LaterCallOnFirstData /\ result = Ok) =>
        /\ first.result = Ok
        /\ TapeIs(token_tape, first.tape)

\* a={1 a=2} parsed a third time, after two other calls on the same tape
C17_Witness ==
    /\ calls = 2
    /\ result = Ok
    /\ first.input = input
    /\ TapeIs(token_tape,
              << Scalar(<<97>>), Array(7), Scalar(<<49>>), Object(6),
                 Scalar(<<97>>), Scalar(<<50>>), End(3), End(1) >>)

(***************************************************************************)
(* C15                                                                     *)
(***************************************************************************)
\* x is k=v with key k, the first word of x, and a value text v that does
\* not start with `=`; y is k v with a blank for the `=`, or kv when v
\* starts with `{`
WithoutSeparator(x, y) ==
    LET n == Len(Word(x))
        k == Take(x, n)
        v == Drop(x, n + 1)
    IN  /\ n > 0 /\ Len(x) > n /\ x[n + 1] = EQUALS
        /\ (v # << >> => v[1] # EQUALS)
        /\ \/ y = k \o << 32 >> \o v
           \/ v # << >> /\ v[1] = LBRACE /\ y = k \o v

\* C15: the `=` between a key and its value is optional.  Behind a key, with
\* or without a `=` before the value text, the parse goes on in state
\* ObjectValue at the value text with the tape as it was; and the inputs k=v
\* and k v (k{...} and k={...}), parsed one after the other, end with the
\* same result kind and identical tapes.
C15_SeparatorOptional ==
    /\ [][(result = Running /\ state = "KeyValueSeparator"
             /\ skip_ws_t(data) # << >>) =>
             LET d == skip_ws_t(data)
                 v == IF d[1] = EQUALS THEN Tail(d) ELSE d
             IN  /\ data' = v
                 /\ state' = "ObjectValue"
                 /\ result' = Running
                 /\ LinkageUnchanged]_vars
    /\ []((calls > 0 /\ result # Running /\ WithoutSeparator(first.input, input)) =>
             /\ result.kind = first.result.kind
             /\ TapeIs(token_tape, first.tape))

\* a={a=a} was parsed first, a{a=a} after it: the same tape
C15_Witness ==
    /\ calls > 0
    /\ result = Ok
    /\ first.input = <<97,EQUALS,LBRACE,97,EQUALS,97,RBRACE>>
    /\ input = <<97,LBRACE,97,EQUALS,97,RBRACE>>
    /\ TapeIs(token_tape,
              << Scalar(<<97>>), Object(4), Scalar(<<97>>), Scalar(<<97>>),
                 End(1) >>)

(***************************************************************************)
(* C18, C19, C20: the conversions, under ScalarSpec                        *)
(***************************************************************************)
\* C18: for every non-empty sequence of ASCII digits, of any length, to_u64
\* returns exactly its decimal value when that is at most u64::MAX, and
\* Overflow when it is more.
C18_ToU64Exact ==
    (converted.fn = "to_u64" /\ scalar # << >> /\ is_digits(scalar)) =>
        IF NumLeq(DecimalValue(scalar), U64_MAX)
        THEN converted.ok /\ converted.val = DecimalValue(scalar)
        ELSE ~converted.ok /\ converted.err = "Overflow"

\* the scalar is digits behind at most one `-`
SignedDigits(s) ==
    LET digits == IF s # << >> /\ s[1] = MINUS THEN Tail(s) ELSE s
    IN  digits # << >> /\ is_digits(digits)

\* the signed decimal value that the scalar writes
SignedValue(s) ==
    IF s[1] = MINUS THEN I64(TRUE, DecimalValue(Tail(s)))
    ELSE I64(FALSE, DecimalValue(s))

FitsI64(v) == NumLeq(v.mag, IF v.neg THEN I64_MIN_MAG ELSE I64_MAX)

\* C19: to_i64 returns the exact signed decimal value of digits behind an
\* optional `-` whenever it fits in i64, and Overflow whenever it does not;
\* it never returns a wrapped value of the wrong sign.
C19_ToI64Exact ==
    (converted.fn = "to_i64" /\ SignedDigits(scalar)) =>
        IF FitsI64(SignedValue(scalar))
        THEN converted.ok /\ converted.val = SignedValue(scalar)
        ELSE ~converted.ok /\ converted.err = "Overflow"

\* byte i of s is one the conversion fn admits: a digit, a `-` as the first
\* byte (to_i64, to_f64), the first `.` (to_f64)
Admitted(fn, s, i) ==
    \/ is_digit(s[i])
    \/ fn \in {"to_i64", "to_f64"} /\ i = 1 /\ s[i] = MINUS
    \/ fn = "to_f64" /\ s[i] = DOT /\ \A j \in 1 .. (i - 1) : s[j] # DOT

\* C20: to_u64, to_i64 and to_f64 fail on the empty input, on a lone `-`,
\* and on every input with a byte that is not admitted; so to_f64 fails on a
\* `-` behind the fractional point and on a second `.`.
C20_BadBytesFail ==
    (converted.fn \in {"to_u64", "to_i64", "to_f64"}
       /\ \/ scalar = << >>
          \/ scalar = << MINUS >>
          \/ \E i \in 1 .. Len(scalar) : ~Admitted(converted.fn, scalar, i)) =>
        ~converted.ok /\ converted.err \in {"AllDigits", "Overflow"}

(***************************************************************************)
(* C21                                                                     *)
(***************************************************************************)
\* s is -I.F for digit strings I and F, F of at most nine digits
MinusFraction(s) ==
    /\ Len(s) >= 4 /\ s[1] = MINUS
    /\ \E idx \in 3 .. (Len(s) - 1) :
          /\ s[idx] = DOT
          /\ is_digits(SubSeq(s, 2, idx - 1))
          /\ is_digits(Drop(s, idx))
          /\ Len(s) - idx <= 9

Negated(x) == I64(~x.neg, x.mag)

\* the fractional part of an f64 with its sign: sign * frac
SignedFrac(v) == IF v.sign = -1 THEN Negated(v.frac) ELSE v.frac

\* a is the negation of b
IsNegation(a, b) ==
    /\ a.digits = b.digits
    /\ a.lead = Negated(b.lead)
    /\ SignedFrac(a) = Negated(SignedFrac(b))

\* C21: for digit strings I and F (F of at most 9 digits) to_f64 of -I.F is
\* the negation of to_f64 of I.F, also when the integer part I is 0.
C21_NegationOfPositive ==
    (converted.fn = "to_f64" /\ MinusFraction(scalar)) =>
        LET positive == to_f64(Tail(scalar), FALSE)
        IN  IF positive.ok
            THEN converted.ok /\ IsNegation(converted.val, positive.val)
            ELSE ~converted.ok

(***************************************************************************)
(* C22                                                                     *)
(***************************************************************************)
\* C22: to_bool returns true exactly for the three bytes yes, false exactly
\* for the two bytes no, and InvalidBool for every other byte sequence: the
\* empty one, another case, blanks around the word.
C22_ToBoolExact ==
    converted.fn = "to_bool" =>
        IF Len(scalar) = 3 /\ scalar[1] = 121 /\ scalar[2] = 101 /\ scalar[3] = 115
        THEN converted.ok /\ converted.val = TRUE
        ELSE IF Len(scalar) = 2 /\ scalar[1] = 110 /\ scalar[2] = 111
        THEN converted.ok /\ converted.val = FALSE
        ELSE ~converted.ok /\ converted.err = "InvalidBool"

\* yes with a blank behind it is not a boolean
C22_Witness ==
    /\ converted.fn = "to_bool"
    /\ scalar = <<121, 101, 115, 32>>
    /\ converted.err = "InvalidBool"

(***************************************************************************)
(* C23, C24                                                                *)
(***************************************************************************)
\* s without its trailing whitespace
RECURSIVE TrimEnd(_)
TrimEnd(s) ==
    IF s # << >> /\ is_whitespace(s[Len(s)]) THEN TrimEnd(Take(s, Len(s) - 1)) ELSE s

\* every backslash of s starts one of the escapes \" and \\
RECURSIVE WellEscaped(_)
WellEscaped(s) ==
    IF s = << >> THEN TRUE
    ELSE IF s[1] = BACKSLASH
    THEN Len(s) >= 2 /\ s[2] \in {QUOTE, BACKSLASH} /\ WellEscaped(Drop(s, 2))
    ELSE WellEscaped(Tail(s))

\* s with \" read as " and \\ read as \
RECURSIVE Unescaped(_)
Unescaped(s) ==
    IF s = << >> THEN << >>
    ELSE IF s[1] = BACKSLASH THEN << s[2] >> \o Unescaped(Drop(s, 2))
    ELSE << s[1] >> \o Unescaped(Tail(s))

\* the Windows-1252 decoding of s, trimmed and unescaped
Canonical(s) ==
    LET u == Unescaped(TrimEnd(s))
    IN  [i \in 1 .. Len(u) |-> WINDOWS_1252(u[i])]

\* C23: for every byte sequence (whose backslashes form the escapes \" and
\* \\) to_utf8 equals the Windows-1252 decoding of the bytes after trimming
\* trailing whitespace and unescaping, \" read as " and \\ as one \.
C23_ToUtf8Canonical ==
    (converted.fn = "to_utf8" /\ WellEscaped(TrimEnd(scalar))) =>
        converted.val.str = Canonical(scalar)

\* all bytes of s are ASCII and none is a backslash
PlainAscii(s) == \A i \in 1 .. Len(s) : s[i] < 128 /\ s[i] # BACKSLASH

\* C24 as stated: to_utf8 returns a borrowed string exactly when the bytes
\* are all ASCII, hold no backslash and have no trailing whitespace, and an
\* owned string in every other case.
C24_BorrowedIffUntouched ==
    converted.fn = "to_utf8" =>
        (converted.val.cow = "Borrowed"
            <=> PlainAscii(scalar) /\ TrimEnd(scalar) = scalar)

\* C24: to_utf8 returns a borrowed string exactly when the bytes that remain
\* after the trim of trailing whitespace are all ASCII and hold no
\* backslash, and the borrowed string is that trimmed slice; trailing
\* whitespace alone does not make the result owned.  A non-ASCII byte or a
\* backslash before the trailing whitespace gives an owned string.
C24_BorrowedIffPlain ==
    converted.fn = "to_utf8" =>
        /\ converted.val.cow = "Borrowed" <=> PlainAscii(TrimEnd(scalar))
        /\ converted.val.cow = "Owned" <=> ~PlainAscii(TrimEnd(scalar))
        /\ converted.val.cow = "Borrowed" => converted.val.str = TrimEnd(scalar)

\* scalar_string_trim_end_newlines: new<newline> is borrowed as new
C24_Witness ==
    /\ converted.fn = "to_utf8"
    /\ scalar = <<110, 101, 119, NEWLINE>>
    /\ converted.val.cow = "Borrowed"
    /\ converted.val.str = <<110, 101, 119>>

(***************************************************************************)
(* C25                                                                     *)
(***************************************************************************)
\* the results that are an Err of parse
IsError(r) == r.kind \in {"Eof", "StackEmpty", "InvalidEmptyObject", "InvalidSyntax"}

\* the kinds of ErrorKind with an offset field; Eof has none
CarriesOffset(r) == r.kind \in {"StackEmpty", "InvalidEmptyObject", "InvalidSyntax"}

\* the offset of the error of this step is the input length minus the length
\* of the input left at the step, the index of the byte the step rejects
OffsetOfRemaining ==
    LET d == skip_ws_t(data)
    IN  /\ d # << >>
        /\ result'.offset = Len(input) - Len(d)
        /\ Drop(input, result'.offset) = d
        /\ data' = d

\* C25 as stated: every error of the parser, whatever its kind, carries an
\* offset, and that offset is the input length minus the length of the input
\* left at the failing step.
C25_EveryErrorHasOffset ==
    [][(result = Running /\ IsError(result')) =>
          CarriesOffset(result') /\ OffsetOfRemaining]_vars

\* C25: a StackEmpty, InvalidEmptyObject or InvalidSyntax error carries the
\* offset that is the input length minus the length of the input left at
\* the failing step, the index of the rejected byte; an Eof error carries no
\* offset and is returned at the end of the input or at a quote without its
\* closing quote.
C25_OffsetOfRemaining ==
    [][(result = Running /\ IsError(result')) =>
          LET d == skip_ws_t(data)
          IN  IF CarriesOffset(result') THEN OffsetOfRemaining
              ELSE /\ result' = ErrEof
                   /\ d = << >> \/ d[1] = QUOTE]_vars

\* test_error_offset, foo={}} a=c : the second `}` at index 6 is rejected
C25_Witness ==
    /\ result = ErrStackEmpty(6)
    /\ Len(input) = 11 /\ input[7] = RBRACE
    /\ Drop(input, 6) = data

(***************************************************************************)
(* C26                                                                     *)
(***************************************************************************)
\* the byte at j of d lies in a comment that begins in d: some `#` at or
\* before j has no newline between itself and j
Hidden(d, j) ==
    \E k \in 1 .. j : d[k] = HASH /\ \A m \in k .. j : d[m] # NEWLINE

\* the index of the first byte of d that is neither whitespace nor in a
\* comment, Len(d) + 1 when there is none
FirstVisible(d) ==
    Min({i \in 1 .. Len(d) : ~is_whitespace(d[i]) /\ ~Hidden(d, i)}
            \cup {Len(d) + 1})

\* the input is made of whitespace and comments only
OnlyBlank == FirstVisible(input) = Len(input) + 1

\* a Scalar with a `#` among its bytes
HasHash(t) == t.tag = "Scalar" /\ \E i \in 1 .. Len(t.val) : t.val[i] = HASH

\* C26: an input of whitespace and `#` comments only, the empty input and a
\* last comment without newline included, parses to Ok with an empty tape;
\* every step of the loop starts at the first byte that is neither
\* whitespace nor in a comment (a comment runs from `#` up to the next
\* newline or the end of the input) and reads on from there, so a `#` gets
\* into a token only inside a quoted scalar.
C26_CommentsHidden ==
    /\ [][result = Running =>
            LET v == Drop(data, FirstVisible(data) - 1)
            IN  /\ skip_ws_t(data) = v
                /\ \E n \in 0 .. Len(v) : data' = Drop(v, n)
                /\ v = << >> => result' \in {Ok, ErrEof}
                /\ \A i \in 1 .. Len(token_tape') :
                      HasHash(token_tape'[i]) =>
                          \/ v # << >> /\ v[1] = QUOTE
                          \/ \E j \in 1 .. Len(token_tape) :
                                /\ token_tape[j].tag = "Scalar"
                                /\ token_tape[j].val = token_tape'[i].val]_vars
    /\ [](OnlyBlank =>
            /\ result \in {Running, Ok}
            /\ token_tape = << >>
            /\ state = "Key" /\ parent_ind = 0)

\* space, `#a`, newline, `#`: two comments, the last one without a newline
C26_Witness ==
    /\ input = << 32, HASH, 97, NEWLINE, HASH >>
    /\ result = Ok
    /\ token_tape = << >>
    /\ data = << >>

(***************************************************************************)
(* C27                                                                     *)
(***************************************************************************)
\* the number of backslashes of d that stand directly in front of index i,
\* the opening quote at index 1 left out
BackslashRun(d, i) ==
    Max({n \in 0 .. i - 2 : \A k \in i - n .. i - 1 : d[k] = BACKSLASH})

\* the byte at i is the second byte of a backslash escape
Escaped(d, i) == BackslashRun(d, i) % 2 = 1

\* the indexes of the quotes behind the opening one that are not escaped
ClosingQuotes(d) == {i \in 2 .. Len(d) : d[i] = QUOTE /\ ~Escaped(d, i)}

\* the states whose arm reads a scalar
ScalarStates == {"Key", "ObjectValue", "ParseOpen", "ArrayValue"}

\* C27: where a scalar is read and the next byte is `"`, the loop appends
\* the Scalar of the bytes strictly between that quote and the first later
\* `"` that is not the second byte of a backslash escape, the escapes kept
\* as they are, and goes on at the byte behind that closing quote; without
\* such a quote the parse ends with Eof and the tape as it was.
C27_QuotedScalar ==
    [][(result = Running /\ state \in ScalarStates) =>
          LET d == skip_ws_t(data)
          IN  (d # << >> /\ d[1] = QUOTE) =>
                 IF ClosingQuotes(d) = {}
                 THEN result' = ErrEof /\ token_tape' = token_tape
                 ELSE LET close == Min(ClosingQuotes(d))
                      IN  /\ result' = Running
                          /\ token_tape' =
                                Append(token_tape, Scalar(SubSeq(d, 2, close - 1)))
                          /\ data' = Drop(d, close)]_vars

\* test_escaped_quotes_short, name = "J Rogers \"a" : the two escaped quotes
\* stay in the scalar with their backslashes
C27_Witness ==
    /\ result = Ok
    /\ Len(input) = 21 /\ input[18] = BACKSLASH /\ input[19] = QUOTE
    /\ TapeIs(token_tape,
              << Scalar(<<110,97,109,101>>),
                 Scalar(<<74,32,82,111,103,101,114,115,32,92,34,97>>) >>)

(***************************************************************************)
(* C28                                                                     *)
(***************************************************************************)
\* the step leaves the token at i as it is
Unmoved(i) == Is(token_tape'[i], token_tape[i])

\* the step writes a container token over the container token at i: over the
\* provisional Array(0), one of the two last tokens, or, with the tag kept,
\* over the current parent or the array around the hidden object
Relinked(i) ==
    /\ IsOpen(token_tape[i])
    /\ IsOpen(token_tape'[i])
    /\ \/ Is(token_tape[i], Array(0)) /\ i >= Len(token_tape) - 1
       \/ /\ token_tape'[i].tag = token_tape[i].tag
          /\ \/ i - 1 = parent_ind
             \/ array_ind_of_hidden_obj = Some(i - 1)

\* the step inserts the Object of a hidden object at i, the place of the last
\* token, which moves to i + 1: the Scalar read last, or the End of the
\* container closed last
Shifted(i) ==
    /\ i = Len(token_tape)
    /\ Len(token_tape') = Len(token_tape) + 1
    /\ token_tape[i].tag \in {"Scalar", "End"}
    /\ Is(token_tape'[i], Object(parent_ind))
    /\ Is(token_tape'[i + 1], token_tape[i])

\* C28 as stated: during a parse a written position changes only when the
\* value of a container token is replaced; no token moves to another index.
C28_NoTokenMoved ==
    [][result = Running =>
          /\ Len(token_tape') >= Len(token_tape)
          /\ \A i \in 1 .. Len(token_tape) :
                Unmoved(i) \/ (IsOpen(token_tape[i]) /\ IsOpen(token_tape'[i]))]_vars

\* C28: during a parse the tape never shrinks, and a step changes a written
\* position only by writing a container token over a container token (the
\* provisional Array(0), then the Array or Object with the index of its
\* parent, then the one of the same tag with the index of its End) or by
\* inserting the Object of a hidden object in front of the last token, a
\* Scalar or an End, which moves up by one index.
C28_WrittenPositions ==
    [][result = Running =>
          /\ Len(token_tape') >= Len(token_tape)
          /\ \A i \in 1 .. Len(token_tape) :
                Unmoved(i) \/ Relinked(i) \/ Shifted(i)]_vars

\* a={a a= : the `=` has put Object(1) at index 3 and moved the Scalar a that
\* was there to index 4
C28_Witness ==
    /\ result = Running
    /\ state = "ObjectValue"
    /\ array_ind_of_hidden_obj = Some(1)
    /\ TapeIs(token_tape,
              << Scalar(<<97>>), Array(0), Scalar(<<97>>), Object(1),
                 Scalar(<<97>>) >>)

(***************************************************************************)
(* C29                                                                     *)
(***************************************************************************)
\* the token at i is the provisional Array(0) whose tag this step decides
Deciding(i) ==
    \/ state = "ParseOpen" /\ i = Len(token_tape)
    \/ state = "FirstValue" /\ i = Len(token_tape) - 1

\* C29: `{` at value position appends the provisional Array(0).  Behind it
\* (whitespace and comments skipped) `}` makes it Array(i+1) at i followed by
\* End(i); `{` makes it an Array; a scalar, bare or quoted, is appended and
\* the byte behind it decides: `=` makes the container an Object, any other
\* byte an Array, with that scalar directly behind the container token.
\* From then on every step keeps the tag of the container.
C29_ContainerTag ==
    [][result = Running =>
          LET d == skip_ws_t(data)
              n == Len(token_tape)
          IN  /\ (d # << >> /\ state \in {"ObjectValue", "ArrayValue"}
                    /\ d[1] = LBRACE) =>
                     /\ Len(token_tape') = n + 1
                     /\ Is(token_tape'[n + 1], Array(0))
                     /\ state' = "ParseOpen"
              /\ (d # << >> /\ state = "ParseOpen") =>
                     /\ Is(token_tape[n], Array(0))
                     /\ d[1] = RBRACE =>
                            /\ Len(token_tape') = n + 1
                            /\ Is(token_tape'[n], Array(n))
                            /\ Is(token_tape'[n + 1], End(n - 1))
                     /\ d[1] = LBRACE =>
                            /\ Len(token_tape') = n
                            /\ Is(token_tape'[n], Array(parent_ind))
                            /\ parent_ind' = n - 1
                            /\ state' = "ArrayValue"
                     /\ (d[1] \notin {RBRACE, LBRACE} /\ result' = Running) =>
                            /\ Len(token_tape') = n + 1
                            /\ Unmoved(n)
                            /\ token_tape'[n + 1].tag = "Scalar"
                            /\ state' = "FirstValue"
              /\ (d # << >> /\ state = "FirstValue") =>
                     /\ Is(token_tape[n - 1], Array(0))
                     /\ token_tape[n].tag = "Scalar"
                     /\ Len(token_tape') = n
                     /\ Unmoved(n)
                     /\ parent_ind' = n - 2
                     /\ IF d[1] = EQUALS
                        THEN /\ Is(token_tape'[n - 1], Object(parent_ind))
                             /\ state' = "ObjectValue"
                        ELSE /\ Is(token_tape'[n - 1], Array(parent_ind))
                             /\ state' = "ArrayValue"
              /\ \A i \in 1 .. n :
                    (IsOpen(token_tape[i]) /\ ~Deciding(i)) =>
                        token_tape'[i].tag = token_tape[i].tag]_vars

\* a={a=a} : the scalar a behind `{` is followed by `=`, the container is an
\* Object with the key a, and the final tape has it as an Object
C29_Witness ==
    /\ result = Ok
    /\ input = << 97, EQUALS, LBRACE, 97, EQUALS, 97, RBRACE >>
    /\ TapeIs(token_tape,
              << Scalar(<<97>>), Object(4), Scalar(<<97>>), Scalar(<<97>>),
                 End(1) >>)

(***************************************************************************)
(* C30                                                                     *)
(***************************************************************************)
\* the container token at place q of the tape (index q - 1) has no End yet:
\* it holds 0 or the index of its parent, which lie in front of it
Unclosed(tape, q) == IsOpen(tape[q]) /\ tape[q].val < q - 1

\* the places of the containers of the tape that are not closed
UnclosedIn(tape) == {q \in 1 .. Len(tape) : Unclosed(tape, q)}

\* the step reads `}` in a state that closes a container, and closes it
Closes ==
    LET d == skip_ws_t(data)
    IN  /\ result = Running /\ result' = Running
        /\ state \in {"Key", "ParseOpen", "ArrayValue"}
        /\ d # << >> /\ d[1] = RBRACE

\* C30: behind a `}` that closes a container (an empty array, an array, an
\* object, a hidden object together with its array) the state is ArrayValue
\* when the innermost container still open is an Array, and Key when it is
\* an Object or when no container is open; parent_ind is the index of that
\* container, 0 when there is none.
C30_StateAfterClose ==
    [][Closes =>
          IF UnclosedIn(token_tape') = {}
          THEN state' = "Key" /\ parent_ind' = 0
          ELSE LET q == Max(UnclosedIn(token_tape'))
               IN  /\ parent_ind' = q - 1
                   /\ state' = IF token_tape'[q].tag = "Array"
                               THEN "ArrayValue" ELSE "Key"]_vars

(***************************************************************************)
(* C31                                                                     *)
(***************************************************************************)
\* the bare scalar at the front of d: the bytes in front of the first
\* boundary byte, and the first byte alone when it is a boundary byte
Bare(d) == IF is_boundary(d[1]) THEN << d[1] >> ELSE Word(d)

\* the arm of the state reads a bare scalar at the front of d
ReadsBare(d) ==
    /\ d # << >>
    /\ d[1] \notin {LBRACE, RBRACE, QUOTE}
    /\ \/ state \in {"Key", "ParseOpen"}
       \/ state = "ObjectValue" /\ ~(d[1] = CH_r /\ rgb_detected(d))
       \/ state = "ArrayValue" /\ d[1] # EQUALS

\* C31: a bare scalar is the bytes from the current position up to, and
\* without, the first boundary byte (whitespace, `{`, `}`, `=`, `#`, `"`)
\* or the end of the input, and the one byte at the current position when
\* that byte is a boundary byte; the loop appends it and goes on behind it.
C31_BareScalar ==
    [][result = Running =>
          LET d == skip_ws_t(data)
          IN  ReadsBare(d) =>
                 /\ Len(Bare(d)) >= 1
                 /\ token_tape' = Append(token_tape, Scalar(Bare(d)))
                 /\ data' = Drop(d, Len(Bare(d)))
                 /\ result' = Running]_vars

\* test_no_ws_comment, foo=abc#def<newline>bar=qux : the `#` ends the scalar abc
C31_Witness ==
    /\ result = Ok
    /\ Len(input) = 19 /\ input[8] = HASH
    /\ TapeIs(token_tape,
              << Scalar(<<102,111,111>>), Scalar(<<97,98,99>>),
                 Scalar(<<98,97,114>>), Scalar(<<113,117,120>>) >>)

(***************************************************************************)
(* C32                                                                     *)
(***************************************************************************)
\* the byte of the input read last, the one in front of data
LastRead == input[Len(input) - Len(data)]

\* C32: the step of state KeyValueSeparator consumes the `=` at the current
\* position, one byte, or nothing, and appends no token.  A `=` met in state
\* ObjectValue stands behind a `=` that was consumed (whitespace and
\* comments aside) and behind the key (the last token, a Scalar, or the End
\* that a hidden object has taken for its key); it is not consumed as a
\* separator: the loop appends the Scalar `=` as the value of that key and
\* goes on in state Key.
C32_OneSeparator ==
    [][result = Running =>
          LET d == skip_ws_t(data)
          IN  /\ (state = "KeyValueSeparator" /\ d # << >>) =>
                     /\ data' = IF d[1] = EQUALS THEN Tail(d) ELSE d
                     /\ token_tape' = token_tape
                     /\ state' = "ObjectValue"
              /\ (state = "ObjectValue" /\ d # << >> /\ d[1] = EQUALS) =>
                     /\ Len(data) < Len(input) /\ LastRead = EQUALS
                     /\ token_tape # << >>
                     /\ \/ token_tape[Len(token_tape)].tag = "Scalar"
                        \/ /\ token_tape[Len(token_tape)].tag = "End"
                           /\ parent_ind = Len(token_tape) - 2
                           /\ parent_ind \in hidden_objs
                     /\ token_tape' = Append(token_tape, EqualScalar)
                     /\ data' = Tail(d)
                     /\ state' = "Key"]_vars

\* a==a a : the second `=` is the value of the first key a
C32_Witness ==
    /\ result = Ok
    /\ input = << 97, EQUALS, EQUALS, 97, 32, 97 >>
    /\ TapeIs(token_tape,
              << Scalar(<<97>>), EqualScalar, Scalar(<<97>>), Scalar(<<97>>) >>)

(***************************************************************************)
(* C33                                                                     *)
(***************************************************************************)
\* the index of the first `.` of s, 0 when there is none
FirstDot(s) == Min({i \in 1 .. Len(s) : s[i] = DOT} \cup {Len(s) + 1}) % (Len(s) + 1)

\* the parts of s in front of and behind the first `.`
IntegerPart(s) == Take(s, FirstDot(s) - 1)
FractionPart(s) == Drop(s, FirstDot(s))

\* s is I.F: digits behind at most one `-`, a `.`, and at least one digit
IsDecimal(s) ==
    /\ FirstDot(s) > 0
    /\ SignedDigits(IntegerPart(s))
    /\ FractionPart(s) # << >> /\ is_digits(FractionPart(s))

\* C33: on I.F, to_f64 fails with Overflow whenever F has ten digits or
\* more, whatever the value; with nine digits or fewer in F and I in the
\* range of i64 it succeeds.
C33_FractionDigits ==
    (converted.fn = "to_f64" /\ IsDecimal(scalar)) =>
        IF Len(FractionPart(scalar)) >= 10
        THEN ~converted.ok /\ converted.err = "Overflow"
        ELSE FitsI64(SignedValue(IntegerPart(scalar))) => converted.ok

(***************************************************************************)
(* C34                                                                     *)
(***************************************************************************)
\* the iterations that read nothing: the state before and the state behind
IdleSteps ==
    { << "KeyValueSeparator", "ObjectValue" >>, << "ObjectValue", "Key" >>,
      << "ParseOpen", "ArrayValue" >>, << "FirstValue", "ArrayValue" >>,
      << "RgbOpen", "Key" >> }

\* the most iterations of one call on an input of n bytes
StepBound(n) == 3 * n + 1

\* C34: every iteration of the loop that does not end the parse either
\* shortens the input left or leaves it as it is and changes the state, the
\* latter only from KeyValueSeparator to ObjectValue, from ObjectValue to
\* Key, from ParseOpen or FirstValue to ArrayValue and from RgbOpen to Key;
\* never more than two iterations in a row read nothing, the state is one
\* the loop has an arm for, and a call makes at most 3 * n + 1 iterations on
\* an input of n bytes.
C34_Terminates ==
    /\ [][(result = Running /\ result' = Running) =>
            /\ Len(data') <= Len(data)
            /\ Len(data') = Len(data) =>
                  state' # state /\ << state, state' >> \in IdleSteps]_vars
    /\ [](/\ idle <= 2
          /\ steps <= StepBound(Len(input))
          /\ state \in ParseStates)

\* behind a key the loop has gone from KeyValueSeparator to ObjectValue and
\* on to Key without reading the `}` in front of it: two iterations in a row
\* that read nothing
C34_Witness ==
    /\ result = Running
    /\ idle = 2
    /\ state = "Key"
    /\ data = << RBRACE >>
    /\ steps > Len(input)

(***************************************************************************)
(* C35                                                                     *)
(***************************************************************************)
\* the state behind a scalar read in state st
AfterScalar(st) ==
    CASE st = "Key" -> "KeyValueSeparator"
      [] st = "ObjectValue" -> "Key"
      [] st = "ParseOpen" -> "FirstValue"
      [] st = "ArrayValue" -> "ArrayValue"

\* the bytes that are syntax outside a quoted scalar
SyntaxBytes == {LBRACE, RBRACE, EQUALS, HASH} \cup Whitespace

\* C35: the bytes between an opening quote and its closing quote, `{`, `}`,
\* `=`, `#` and whitespace among them, are read in one step as the bytes of
\* one Scalar: the step appends that Scalar and nothing else, leaves the
\* tokens in front of it, parent_ind, the hidden object and the rgb channels
\* as they are, and goes to the state that follows a scalar, whatever the
\* bytes are.
C35_QuotedBytesInert ==
    [][(result = Running /\ state \in ScalarStates) =>
          LET d == skip_ws_t(data)
              n == Len(token_tape)
          IN  (d # << >> /\ d[1] = QUOTE /\ ClosingQuotes(d) # {}) =>
                 LET close == Min(ClosingQuotes(d))
                 IN  /\ Len(token_tape') = n + 1
                     /\ \A i \in 1 .. n : Unmoved(i)
                     /\ Is(token_tape'[n + 1], Scalar(SubSeq(d, 2, close - 1)))
                     /\ state' = AfterScalar(state)
                     /\ parent_ind' = parent_ind
                     /\ array_ind_of_hidden_obj' = array_ind_of_hidden_obj
                     /\ hidden_objs' = hidden_objs
                     /\ << red', green', blue' >> = << red, green, blue >>
                     /\ result' = Running
                     /\ Len(data') = Len(d) - close]_vars

\* a={"{}"} : the array holds the one Scalar {} and is closed by the `}`
\* behind the closing quote
C35_Witness ==
    /\ result = Ok
    /\ input = << 97, EQUALS, LBRACE, QUOTE, LBRACE, RBRACE, QUOTE, RBRACE >>
    /\ TapeIs(token_tape,
              << Scalar(<<97>>), Array(3), Scalar(<< LBRACE, RBRACE >>),
                 End(1) >>)

(***************************************************************************)
(* C36                                                                     *)
(***************************************************************************)
\* C36: on every input that starts with `"` the scan in chunks of eight,
\* _parse_quote_scalar, returns what the bytewise parse_quote_scalar_fallback
\* returns, the same scalar and the same rest or Eof in both, wherever the
\* quotes and backslashes lie with respect to the chunks; the loop goes on
\* with that outcome.
C36_ChunkedEqualsBytewise ==
    [][(result = Running /\ state \in ScalarStates) =>
          LET d == skip_ws_t(data)
          IN  (d # << >> /\ d[1] = QUOTE) =>
                 LET bytewise == parse_quote_scalar_fallback(d)
                 IN  /\ parse_quote_scalar_(d) = bytewise
                     /\ bytewise.kind \in {"Ok", "Eof"}
                     /\ bytewise.kind = "Eof" => result' = ErrEof
                     /\ bytewise.kind = "Ok" =>
                           /\ token_tape' = Append(token_tape, Scalar(bytewise.scalar))
                           /\ data' = bytewise.rest]_vars

\* test_escaped_quotes, name = "Joe \"Captain\" Rogers" : the first chunk of
\* eight holds a backslash, the scalar of 22 bytes spans three chunks
C36_Witness ==
    /\ result = Ok
    /\ Len(input) = 31 /\ input[13] = BACKSLASH
    /\ Len(token_tape) = 2
    /\ Is(token_tape[2],
          Scalar(<<74,111,101,32,92,34,67,97,112,116,97,105,110,92,34,32,82,
                   111,103,101,114,115>>))

(***************************************************************************)
(* C37                                                                     *)
(***************************************************************************)
TWO_POW_32 == Rev(<<4,2,9,4,9,6,7,2,9,6>>)

\* x - k * 2^32 for the largest k that leaves it non-negative, x < 10 * 2^32
RECURSIVE Reduce32(_)
Reduce32(x) == IF NumLeq(TWO_POW_32, x) THEN Reduce32(NumSub(x, TWO_POW_32)) ELSE x

\* the remainder of x by 2^32, by long division over the decimal digits
RECURSIVE Rem32From(_, _, _)
Rem32From(x, i, r) ==
    IF i = 0 THEN r
    ELSE Rem32From(x, i - 1, Reduce32(NumNorm(<< x[i] >> \o r)))

Rem32(x) == Rem32From(x, Len(x), << >>)

\* C37: a channel that to_u64 decodes is accepted whatever its size and
\* stored as its to_u64 value modulo 2^32 (never rejected with InvalidSyntax
\* for exceeding u32::MAX); the Rgb token written at the closing brace holds
\* the three stored channels.
C37_ChannelTruncated ==
    [][(result = Running /\ state \in {"RgbR", "RgbG", "RgbB", "RgbClose"}) =>
          LET d == skip_ws_t(data)
          IN  d # << >> =>
                 /\ (state # "RgbClose" /\ to_u64(Bare(d)).ok) =>
                       LET c == Rem32(to_u64(Bare(d)).val)
                       IN  /\ result' = Running
                           /\ data' = Drop(d, Len(Bare(d)))
                           /\ state = "RgbR" => red' = c /\ state' = "RgbG"
                           /\ state = "RgbG" => green' = c /\ state' = "RgbB"
                           /\ state = "RgbB" => blue' = c /\ state' = "RgbClose"
                 /\ (state = "RgbClose" /\ d[1] = RBRACE) =>
                       /\ Len(token_tape') = Len(token_tape) + 1
                       /\ Is(token_tape'[Len(token_tape')], Rgb(red, green, blue))]_vars

\* a=rgb{4294967296 4294967301 1234567812345678} : 2^32 is stored as 0,
\* 2^32 + 5 as 5, and the third channel as its to_u64 value modulo 2^32
C37_Witness ==
    /\ result = Ok
    /\ Len(input) = 45
    /\ Len(token_tape) = 2
    /\ Is(token_tape[2], Rgb(<< >>, NumOf(5), NumOf(950292636)))

(***************************************************************************)
(* C38                                                                     *)
(***************************************************************************)
\* the same tag and the same link, Rgb value or byte range
SameToken(t, u) == IF t.tag = u.tag THEN t.val = u.val ELSE FALSE

Unclassified ==
    IF state = "ParseOpen" THEN {Len(token_tape)}
    ELSE IF state = "FirstValue" THEN {Len(token_tape) - 1}
    ELSE {}

\* the places of the classified containers that are open
ClassifiedOpen == UnclosedIn(token_tape) \ Unclassified

\* the token at index 0 of a tape that is not empty is a Scalar
C39_FirstTokenScalar ==
    token_tape # << >> => token_tape[1].tag = "Scalar"

\* C39: the token at index 0 of a tape that is not empty is a Scalar, and
\* parent_ind is 0 exactly when no classified container is open.
C39_ParentIndZero ==
    /\ C39_FirstTokenScalar
    /\ (parent_ind = 0) <=> (ClassifiedOpen = {})

=============================================================================
